---- MODULE Spec2Model ----
(***************************************************************************)
(* A model of the "Meu Bar" ledger PWA (bitte91/conta-bar):                *)
(*   js/main.js  - the OCR autofill path: parseOcrResult, findBestMatch,   *)
(*                 levenshtein;                                            *)
(*   js/store.js - the Dexie store: clients, products, transactions and    *)
(*                 the derived client balance;                             *)
(*   js/ui.js    - the launch form (client selector, product cards), the   *)
(*                 client statement and the notifications;                 *)
(*   js/main.js  - the handlers that tie them together.                    *)
(* JavaScript strings are sequences of one-character strings; JavaScript   *)
(* values that may be null or of another type are tagged records.          *)
(***************************************************************************)
EXTENDS Integers, Sequences, FiniteSets

VARIABLES
    pc,            \* "input": arguments chosen; "returned": the call has returned
    levA, levB,    \* the arguments of levenshtein(a, b)
    levResult,     \* its return value
    query,         \* findBestMatch: the query (a tagged JavaScript value)
    candidates,    \* findBestMatch: the candidate list (a tagged JavaScript value)
    match,         \* findBestMatch: what the call produced
    text,          \* parseOcrResult: its argument (a tagged JavaScript value);
                   \* the text of the latest handleImageUpload call
    parsed,        \* parseOcrResult: what the call produced; the parsedData
                   \* of the latest handleImageUpload call
    clients,       \* store: db.clients, the ids of the clients
    products,      \* store: db.products, records of id and price (in cents)
    transactions,  \* store: db.transactions, in insertion order
    dbTxn,         \* store: the read-write transaction in progress, or JsNull
    appClients,    \* appState.clients, the array last fetched
    appProducts,   \* appState.products, the array last fetched
    selectOptions, \* the client ids offered by #select-client
    selectValue,   \* the value of #select-client (0: the empty value)
    cards,         \* #products-grid: product id -> quantity and selected class
    toasts,        \* the notifications shown by the handler that ran last
    ocrModal,      \* whether #ocr-status-modal is displayed
    imageUpload,   \* the value of #image-upload: the file chosen, "" for none
    statement,     \* the client statement rendered last, or JsNull
    isLoading,     \* appState.isLoading
    handlers,      \* main.js's asynchronous handlers: where each one is
                   \* ("idle", or the await it is at) and its locals
    cacheStorage,  \* sw.js: the caches of the origin, in creation order
    swCalls,       \* sw.js: the calls of handleCacheFirst: the request, the
                   \* await each is at, and the response it resolved with
    swPuts,        \* sw.js: the cache.put calls that have not completed
    swActivate     \* sw.js: where cleanupOldCaches is, and its locals

vars == <<pc, levA, levB, levResult, query, candidates, match, text, parsed,
          clients, products, transactions, dbTxn, appClients, appProducts,
          selectOptions, selectValue, cards, toasts, ocrModal, imageUpload,
          statement, isLoading, handlers, cacheStorage, swCalls, swPuts,
          swActivate>>

(***************************************************************************)
(* Bounds of the model.                                                    *)
(***************************************************************************)
MaxLevLen == 3
MaxQueryLen == 4
MaxCandidates == 3
MaxLines == 4
MaxTx == 3

(***************************************************************************)
(* JavaScript values.                                                      *)
(***************************************************************************)
JsNull == [t |-> "null"]
JsString(s) == [t |-> "string", s |-> s]
JsNumber(n) == [t |-> "number", n |-> n]
JsArray(xs) == [t |-> "array", a |-> xs]
Raised == [t |-> "raised"]

\* All strings over alphabet of length at most n.
Strings(alphabet, n) == UNION {[1..k -> alphabet] : k \in 0..n}

Min2(x, y) == IF x <= y THEN x ELSE y

(***************************************************************************)
(* levenshtein(a, b), main.js 749-781: the full matrix, filled row by row. *)
(* matrix[i][j] is kept at index j + 1 of row i.                           *)
(***************************************************************************)
\* A cell that leaves out the deletion term matrix[i - 1][j] + 1.
CellValueNoDeletion(prev, row, j, same) ==
    IF same THEN prev[j]
    ELSE Min2(prev[j] + 1, row[j] + 1)

\* matrix[i][j], from row i - 1 (prev) and the cells of row i already filled.
CellValue(prev, row, j, same) ==
    IF same THEN prev[j]
    ELSE Min2(prev[j] + 1, Min2(row[j] + 1, prev[j + 1] + 1))

\* The inner loop over j of row i; row holds matrix[i][0 .. Len(row) - 1].
RECURSIVE FillRow(_, _, _, _, _)
FillRow(a, b, i, prev, row) ==
    LET j == Len(row)
    IN  IF j > Len(a) THEN row
        ELSE FillRow(a, b, i, prev,
                     Append(row, CellValue(prev, row, j, b[i] = a[j])))

\* The outer loop over i; prev is matrix[i - 1]. Returns matrix[b.length].
RECURSIVE FillMatrix(_, _, _, _)
FillMatrix(a, b, i, prev) ==
    IF i > Len(b) THEN prev
    ELSE FillMatrix(a, b, i + 1, FillRow(a, b, i, prev, <<i>>))

levenshtein(a, b) ==
    IF Len(a) = 0 THEN Len(b)
    ELSE IF Len(b) = 0 THEN Len(a)
    ELSE FillMatrix(a, b, 1, [j \in 1..(Len(a) + 1) |-> j - 1])[Len(a) + 1]

(***************************************************************************)
(* findBestMatch(query, candidates, key), main.js 710-741.                 *)
(***************************************************************************)
\* String.prototype.toLowerCase on one character of the model's alphabets.
Lower(c) ==
    CASE c = "A" -> "a"
      [] c = "B" -> "b"
      [] OTHER -> c

\* A lowering that leaves the string as it is (a case-sensitive comparison).
toLowerCaseIdentity(s) == s

toLowerCase(s) == [k \in 1..Len(s) |-> Lower(s[k])]

\* JavaScript's !v for the values the model passes.
Falsy(v) ==
    \/ v.t = "null"
    \/ v.t = "string" /\ Len(v.s) = 0

\* A guard that tests the query alone.
GuardQueryOnly(q, cands) == Falsy(q)

\* Line 711: !query || !candidates || candidates.length === 0.
findBestMatchGuard(q, cands) ==
    \/ Falsy(q)
    \/ Falsy(cands)
    \/ Len(cands.a) = 0

\* The running best replaced also by an equally distant candidate.
IsCloserOrEqual(distance, st) == st.best = 0 \/ distance <= st.min

\* Line 729: distance < minDistance; best = 0 stands for minDistance = Infinity.
IsCloser(distance, st) == st.best = 0 \/ distance < st.min

\* A threshold that rejects a distance equal to half the query's length.
RejectsAtHalf(st, q) == st.best = 0 \/ 2 * st.min >= Len(q)

\* Line 736: minDistance > query.length / 2, a division without rounding.
Rejects(st, q) == st.best = 0 \/ 2 * st.min > Len(q)

\* The loop of lines 719-733 from candidate i on. exact is the index of the
\* candidate returned at line 726 (0: none), best the index of bestMatch.
RECURSIVE ScanCandidates(_, _, _, _, _)
ScanCandidates(queryLower, cands, key, i, st) ==
    IF i > Len(cands) THEN st
    ELSE LET candidateLower == toLowerCase(cands[i][key])
             distance == levenshtein(queryLower, candidateLower)
         IN  IF distance = 0 THEN [st EXCEPT !.exact = i]
             ELSE IF IsCloser(distance, st)
                  THEN ScanCandidates(queryLower, cands, key, i + 1,
                                      [st EXCEPT !.best = i, !.min = distance])
                  ELSE ScanCandidates(queryLower, cands, key, i + 1, st)

\* Reading .toLowerCase of null, or iterating null, raises a TypeError.
findBestMatch(q, cands, key) ==
    IF findBestMatchGuard(q, cands) THEN JsNull
    ELSE IF q.t # "string" \/ cands.t # "array" THEN Raised
    ELSE LET st == ScanCandidates(toLowerCase(q.s), cands.a, key, 1,
                                  [exact |-> 0, best |-> 0, min |-> 0])
         IN  IF st.exact # 0 THEN cands.a[st.exact]
             ELSE IF Rejects(st, q.s) THEN JsNull
             ELSE cands.a[st.best]

(***************************************************************************)
(* parseOcrResult(text), main.js 631-659.                                  *)
(***************************************************************************)
\* What \s and trim take for white space, among the model's characters.
Whitespace == {" ", "\t", "\n", "\r"}
Digits == {"0", "1", "2", "3", "4", "5", "6", "7", "8", "9"}
LineTerminators == {"\n", "\r"}

DigitValue(c) ==
    CASE c = "0" -> 0 [] c = "1" -> 1 [] c = "2" -> 2 [] c = "3" -> 3
      [] c = "4" -> 4 [] c = "5" -> 5 [] c = "6" -> 6 [] c = "7" -> 7
      [] c = "8" -> 8 [] c = "9" -> 9

\* The first index from i on whose character is not in S (Len(s) + 1: none).
RECURSIVE SkipForward(_, _, _)
SkipForward(s, i, S) ==
    IF i <= Len(s) /\ s[i] \in S THEN SkipForward(s, i + 1, S) ELSE i

\* The last index down from i whose character is not in S (0: none).
RECURSIVE SkipBackward(_, _, _)
SkipBackward(s, i, S) ==
    IF i >= 1 /\ s[i] \in S THEN SkipBackward(s, i - 1, S) ELSE i

\* String.prototype.trim.
trim(s) ==
    LET first == SkipForward(s, 1, Whitespace)
        last == SkipBackward(s, Len(s), Whitespace)
    IN  IF first > last THEN <<>> ELSE SubSeq(s, first, last)

\* The first index from i on that holds c (0: none).
RECURSIVE indexOf(_, _, _)
indexOf(s, c, i) ==
    IF i > Len(s) THEN 0
    ELSE IF s[i] = c THEN i
    ELSE indexOf(s, c, i + 1)

\* text.split('\n'): the pieces between the separators, empty ones kept.
RECURSIVE split(_, _)
split(s, sep) ==
    LET i == indexOf(s, sep, 1)
    IN  IF i = 0 THEN <<s>>
        ELSE <<SubSeq(s, 1, i - 1)>> \o split(SubSeq(s, i + 1, Len(s)), sep)

\* Line 636: .filter(line => line.trim() !== '').
NonBlank(line) == trim(line) # <<>>

\* parseInt(digits, 10) of a run of decimal digits.
RECURSIVE parseInt(_)
parseInt(ds) ==
    IF Len(ds) = 0 THEN 0
    ELSE 10 * parseInt(SubSeq(ds, 1, Len(ds) - 1)) + DigitValue(ds[Len(ds)])

\* The tail \s*=\s*(\d+) of itemRegex, without the closing \s*$: the text
\* may go on after the digits.
RestMatchUnanchored(r) ==
    LET eq == SkipForward(r, 1, Whitespace)
        d1 == SkipForward(r, eq + 1, Whitespace)
        d2 == SkipForward(r, d1, Digits)
    IN  IF eq <= Len(r) /\ r[eq] = "=" /\ d2 > d1
        THEN <<SubSeq(r, d1, d2 - 1)>>
        ELSE <<>>

\* The tail \s*=\s*(\d+)\s*$ of itemRegex (line 647) tried on r: <<digits>>
\* when r matches as a whole, <<>> when it does not.
RestMatch(r) ==
    LET eq == SkipForward(r, 1, Whitespace)
        d1 == SkipForward(r, eq + 1, Whitespace)
        d2 == SkipForward(r, d1, Digits)
        end == SkipForward(r, d2, Whitespace)
    IN  IF eq <= Len(r) /\ r[eq] = "=" /\ d2 > d1 /\ end > Len(r)
        THEN <<SubSeq(r, d1, d2 - 1)>>
        ELSE <<>>

\* line.match(itemRegex), /^(.*?)\s*=\s*(\d+)\s*$/: the lazy group (.*?) is
\* tried with k = 0, 1, 2, ... characters, none of them a line terminator;
\* the first k whose tail matches wins. <<group 1, group 2>>, or <<>> (null).
RECURSIVE itemRegexMatch(_, _)
itemRegexMatch(s, k) ==
    IF k > Len(s) THEN <<>>
    ELSE LET rest == RestMatch(SubSeq(s, k + 1, Len(s)))
         IN  IF rest # <<>> THEN <<SubSeq(s, 1, k), rest[1]>>
             ELSE IF k < Len(s) /\ s[k + 1] \notin LineTerminators
                  THEN itemRegexMatch(s, k + 1)
                  ELSE <<>>

\* The loop of lines 649-656 over the lines that follow the client name.
RECURSIVE parseItems(_)
parseItems(lines) ==
    IF Len(lines) = 0 THEN <<>>
    ELSE LET m == itemRegexMatch(trim(Head(lines)), 0)
         IN  IF m # <<>>
             THEN <<[productName |-> trim(m[1]), qty |-> parseInt(m[2])]>>
                      \o parseItems(Tail(lines))
             ELSE parseItems(Tail(lines))

EmptyReceipt == [clientName |-> JsNull, items |-> <<>>]

\* A guard that lets a value that is not a string through.
ParseGuardFalsyOnly(txt) == Falsy(txt)

\* Line 632: !text || typeof text !== 'string'.
parseOcrResultGuard(txt) == Falsy(txt) \/ txt.t # "string"

\* The client name taken as the line is, without trimming it.
ClientNameUntrimmed(lines) == Head(lines)

\* Line 643: lines.shift().trim().
ClientNameOf(lines) == trim(Head(lines))

\* Calling .split on a value that has none raises a TypeError.
parseOcrResult(txt) ==
    IF parseOcrResultGuard(txt) THEN EmptyReceipt
    ELSE IF txt.t # "string" THEN Raised
    ELSE LET lines == SelectSeq(split(txt.s, "\n"), NonBlank)
         IN  IF Len(lines) = 0 THEN EmptyReceipt
             ELSE [clientName |-> JsString(ClientNameOf(lines)),
                   items |-> parseItems(Tail(lines))]

(***************************************************************************)
(* js/store.js: the transactions table and the derived balance. Money is   *)
(* counted in cents.                                                       *)
(***************************************************************************)
\* Line 325: the productId that marks a payment.
PaymentProductId == 0

\* Rows that take the position after the product's for its id.
RECURSIVE BatchRowsOffByOne(_, _)
BatchRowsOffByOne(clientId, items) ==
    IF Len(items) = 0 THEN <<>>
    ELSE <<[clientId |-> clientId, productId |-> Head(items).productId + 1,
            qty |-> Head(items).qty, type |-> "debit"]>>
             \o BatchRowsOffByOne(clientId, Tail(items))

\* The rows that db.transactions.add appends for a batch (lines 249-259).
RECURSIVE BatchRows(_, _)
BatchRows(clientId, items) ==
    IF Len(items) = 0 THEN <<>>
    ELSE <<[clientId |-> clientId, productId |-> Head(items).productId,
            qty |-> Head(items).qty, type |-> "debit"]>>
             \o BatchRows(clientId, Tail(items))

\* The row that addPayment appends (lines 323-329).
PaymentRow(clientId, amount) ==
    [clientId |-> clientId, productId |-> PaymentProductId,
     qty |-> amount, type |-> "credit"]

\* Line 223, .reverse().
Reverse(s) == [i \in 1..Len(s) |-> s[Len(s) + 1 - i]]

\* getTransactionsByClientId (lines 217-232): the client's rows, the latest
\* first.
getTransactionsByClientId(txs, clientId) ==
    Reverse(SelectSeq(txs, LAMBDA tx : tx.clientId = clientId))

\* Line 295: productsMap[transaction.productId] || 0.
ProductPrice(prods, productId) ==
    IF \E p \in prods : p.id = productId
    THEN (CHOOSE p \in prods : p.id = productId).price
    ELSE 0

\* The loop of lines 294-303 over the client's rows.
RECURSIVE SumBalance(_, _)
SumBalance(txs, prods) ==
    IF Len(txs) = 0 THEN 0
    ELSE LET transaction == txs[Len(txs)]
             amount == ProductPrice(prods, transaction.productId) * transaction.qty
             before == SumBalance(SubSeq(txs, 1, Len(txs) - 1), prods)
         IN  IF transaction.type = "debit" THEN before + amount
             ELSE IF transaction.type = "credit" THEN before - amount
             ELSE before

getClientBalance(txs, prods, clientId) ==
    SumBalance(getTransactionsByClientId(txs, clientId), prods)

(***************************************************************************)
(* js/store.js: the reads that return arrays ordered by name.              *)
(***************************************************************************)
\* The letters of the names the model stores, in string order.
Letters == <<"a", "b", "c">>
Rank(c) == CHOOSE i \in 1..Len(Letters) : Letters[i] = c

\* s < t as IndexedDB orders string keys.
RECURSIVE Before(_, _)
Before(s, t) ==
    IF Len(t) = 0 THEN FALSE
    ELSE IF Len(s) = 0 THEN TRUE
    ELSE IF s[1] = t[1] THEN Before(Tail(s), Tail(t))
    ELSE Rank(s[1]) < Rank(t[1])

\* table.orderBy('name').toArray() of a set of rows.
RECURSIVE orderByName(_)
orderByName(rows) ==
    IF rows = {} THEN <<>>
    ELSE LET first == CHOOSE r \in rows : \A o \in rows \ {r} :
                          Before(r.name, o.name) \/ (r.name = o.name /\ r.id < o.id)
         IN  <<first>> \o orderByName(rows \ {first})

\* The names the clients were registered with (addClient, lines 31-45).
ClientNames == [c \in {1, 2} |-> IF c = 1 THEN <<"a", "b">> ELSE <<"b", "a">>]

\* getAllClients (lines 51-63).
getAllClients(cs) == orderByName({[id |-> c, name |-> ClientNames[c]] : c \in cs})

\* getAllProducts (lines 141-153).
getAllProducts(prods) == orderByName(prods)

\* A lookup that makes up a row for an id the table does not hold.
getClientByIdOrBlank(cs, clientId) ==
    [id |-> clientId, name |-> ClientNames[clientId]]

\* getClientById (lines 70-84): the row, or JsNull for undefined.
getClientById(cs, clientId) ==
    IF clientId \in cs THEN [id |-> clientId, name |-> ClientNames[clientId]]
    ELSE JsNull

(***************************************************************************)
(* js/ui.js: the launch form. A card is a record of the product id, the    *)
(* text of its .product-quantity and whether it has the class selected;    *)
(* the cards are kept in document order.                                   *)
(***************************************************************************)
\* The names main.js can reach through "import * as UI": the functions that
\* ui.js declares with export. updateLaunchSummary (line 682) and
\* hideLaunchSummary (line 729) are declared without it.
UiExports ==
    {"showPage", "renderClientList", "populateClientSelector",
     "renderProductList", "renderProductsGrid", "renderLaunchScreen",
     "clearProductSelection", "setProductQuantity", "selectClient",
     "getLaunchData", "renderClientStatement", "showOcrStatus",
     "updateOcrProgress", "showToast"}

\* showToast(message, type) (line 1016). what names the message, about its
\* quoted argument.
Toast(type, what, about) == [type |-> type, what |-> what, about |-> about]

\* populateClientSelector (lines 492-515): one option per client.
populateClientSelector(clientArray) ==
    {clientArray[i].id : i \in 1..Len(clientArray)}

\* renderProductsGrid (lines 575-619): one card per product, quantity 0.
renderProductsGrid(productArray) ==
    [i \in 1..Len(productArray) |->
        [productId |-> productArray[i].id, quantity |-> 0, selected |-> FALSE]]

\* querySelector(`.product-card[data-product-id="..."]`): the index of the
\* first such card (0: null).
RECURSIVE CardIndex(_, _, _)
CardIndex(cs, productId, i) ==
    IF i > Len(cs) THEN 0
    ELSE IF cs[i].productId = productId THEN i
    ELSE CardIndex(cs, productId, i + 1)

\* handleProductSelection (lines 650-676): a click on the card.
handleProductSelection(cs, productId) ==
    LET i == CardIndex(cs, productId, 1)
    IN  IF i = 0 THEN cs
        ELSE [cs EXCEPT ![i] = [@ EXCEPT !.quantity = @ + 1, !.selected = TRUE]]

\* A setProductQuantity that adds the quantity to the one on the card.
setProductQuantityAdds(cs, productId, newQty) ==
    LET i == CardIndex(cs, productId, 1)
    IN  IF i = 0 THEN cs
        ELSE IF cs[i].quantity + newQty <= 0
             THEN [cs EXCEPT ![i] = [@ EXCEPT !.quantity = 0, !.selected = FALSE]]
             ELSE [cs EXCEPT ![i] = [@ EXCEPT !.quantity = @ + newQty,
                                              !.selected = TRUE]]

\* setProductQuantity (lines 784-800).
setProductQuantity(cs, productId, newQty) ==
    LET i == CardIndex(cs, productId, 1)
    IN  IF i = 0 THEN cs
        ELSE IF newQty <= 0
             THEN [cs EXCEPT ![i] = [@ EXCEPT !.quantity = 0, !.selected = FALSE]]
             ELSE [cs EXCEPT ![i] = [@ EXCEPT !.quantity = newQty,
                                              !.selected = TRUE]]

\* A clearing that removes the selected class and keeps the quantities.
clearSelectedClassOnly(cs) ==
    [i \in 1..Len(cs) |-> [cs[i] EXCEPT !.selected = FALSE]]

\* clearProductSelection (lines 766-778).
clearProductSelection(cs) ==
    [i \in 1..Len(cs) |-> [cs[i] EXCEPT !.quantity = 0, !.selected = FALSE]]

\* selectClient (lines 806-811): assigning a value that no option has
\* leaves the select without a selected option, its value empty.
selectClient(options, clientId) ==
    IF clientId \in options THEN clientId ELSE 0

\* getSelectedProducts (lines 740-761): the .selected cards whose quantity
\* is positive, in document order.
getSelectedProducts(cs) ==
    LET chosen == SelectSeq(cs, LAMBDA card : card.selected /\ card.quantity > 0)
    IN  [i \in 1..Len(chosen) |->
            [productId |-> chosen[i].productId, qty |-> chosen[i].quantity]]

\* getLaunchData (lines 817-836).
getLaunchData(value, cs) ==
    IF value = 0 \/ Len(getSelectedProducts(cs)) = 0 THEN JsNull
    ELSE [clientId |-> value, items |-> getSelectedProducts(cs)]

\* A line that reads the name and the price of the product without
\* testing that there is one: the rendering fails on a missing product.
StatementLineUnguarded(transaction, productArray) ==
    IF transaction.type = "credit" /\ transaction.productId = PaymentProductId
    THEN [kind |-> "payment", name |-> <<>>, value |-> transaction.qty]
    ELSE IF \E k \in 1..Len(productArray) :
                productArray[k].id = transaction.productId
    THEN LET i == CHOOSE k \in 1..Len(productArray) :
                      productArray[k].id = transaction.productId
         IN  [kind |-> "product", name |-> productArray[i].name,
              value |-> productArray[i].price * transaction.qty]
    ELSE [kind |-> "raised", name |-> <<>>, value |-> 0]

\* renderClientStatement (lines 849-945): one line per transaction. A
\* payment (lines 889-901) shows its qty as the value paid; any other row
\* looks its product up in the array it was given (lines 904-909).
StatementLine(transaction, productArray) ==
    IF transaction.type = "credit" /\ transaction.productId = PaymentProductId
    THEN [kind |-> "payment", name |-> <<>>, value |-> transaction.qty]
    ELSE LET i == CHOOSE k \in 0..Len(productArray) :
                      \/ k > 0 /\ productArray[k].id = transaction.productId
                      \/ k = 0 /\ \A j \in 1..Len(productArray) :
                                     productArray[j].id # transaction.productId
         IN  IF i = 0
             THEN [kind |-> "notFound", name |-> <<>>, value |-> 0]
             ELSE [kind |-> "product", name |-> productArray[i].name,
                   value |-> productArray[i].price * transaction.qty]

renderClientStatement(client, txs, productArray, balance) ==
    [clientId |-> client.id,
     lines |-> [i \in 1..Len(txs) |-> StatementLine(txs[i], productArray)],
     balance |-> balance]

(***************************************************************************)
(* js/main.js: populateFormWithOcrData (lines 665-701). It works on        *)
(* appState and the form: a record of appState.clients, appState.products, *)
(* the select's value, the cards, the notifications shown so far, the      *)
(* flag allItemsFound and whether an exception is propagating.             *)
(***************************************************************************)
\* A loop that takes each matched product out of appState.products.
RECURSIVE PopulateItemsConsuming(_, _, _)
PopulateItemsConsuming(items, i, form) ==
    IF i > Len(items) THEN form
    ELSE LET item == items[i]
             productMatch == findBestMatch(JsString(item.productName),
                                           JsArray(form.products), "name")
         IN  IF productMatch # JsNull
             THEN PopulateItemsConsuming(items, i + 1,
                      [form EXCEPT !.cards = setProductQuantity(
                                         @, productMatch.id, item.qty),
                                   !.products = SelectSeq(@,
                                         LAMBDA p : p.id # productMatch.id)])
             ELSE PopulateItemsConsuming(items, i + 1,
                      [form EXCEPT !.allItemsFound = FALSE,
                                   !.toasts = Append(@, Toast("warning",
                                       "productNotFound", item.productName))])

\* A loop that stops at the first item without a match.
RECURSIVE PopulateItemsUntilMiss(_, _, _)
PopulateItemsUntilMiss(items, i, form) ==
    IF i > Len(items) THEN form
    ELSE LET item == items[i]
             productMatch == findBestMatch(JsString(item.productName),
                                           JsArray(form.products), "name")
         IN  IF productMatch # JsNull
             THEN PopulateItemsUntilMiss(items, i + 1,
                      [form EXCEPT !.cards = setProductQuantity(
                                         @, productMatch.id, item.qty)])
             ELSE [form EXCEPT !.allItemsFound = FALSE,
                               !.toasts = Append(@, Toast("warning",
                                   "productNotFound", item.productName))]

\* The loop of lines 677-690 from item i on.
RECURSIVE PopulateItems(_, _, _)
PopulateItems(items, i, form) ==
    IF i > Len(items) THEN form
    ELSE LET item == items[i]
             productMatch == findBestMatch(JsString(item.productName),
                                           JsArray(form.products), "name")
         IN  IF productMatch # JsNull
             THEN PopulateItems(items, i + 1,
                      [form EXCEPT !.cards = setProductQuantity(
                                         @, productMatch.id, item.qty)])
             ELSE PopulateItems(items, i + 1,
                      [form EXCEPT !.allItemsFound = FALSE,
                                   !.toasts = Append(@, Toast("warning",
                                       "productNotFound", item.productName))])

\* Lines 694-700: UI.updateLaunchSummary() and the closing notification.
\* Calling a name the module namespace lacks raises a TypeError, which
\* leaves the function at line 694.
FinishPopulate(form) ==
    IF "updateLaunchSummary" \notin UiExports
    THEN [form EXCEPT !.raised = "notAFunction"]
    ELSE IF form.allItemsFound
    THEN [form EXCEPT !.toasts = Append(@, Toast("success", "formFilled", <<>>))]
    ELSE [form EXCEPT !.toasts = Append(@, Toast("warning", "someItemsMissing", <<>>))]

\* Lines 669-673 without the return: the items are processed whether or
\* not the client was found.
ClientStepWithoutReturn(clientMatch, parsedData, options, form) ==
    IF clientMatch = JsNull
    THEN [form EXCEPT !.toasts = Append(@, Toast("warning", "clientNotFound",
                                                 parsedData.clientName.s))]
    ELSE [form EXCEPT !.value = selectClient(options, clientMatch.id)]

\* Lines 669-674: the client step. The record says whether the function
\* returns there.
ClientStep(clientMatch, parsedData, options, form) ==
    IF clientMatch = JsNull
    THEN [form EXCEPT !.returned = TRUE,
                      !.toasts = Append(@, Toast("warning", "clientNotFound",
                                                 parsedData.clientName.s))]
    ELSE [form EXCEPT !.value = selectClient(options, clientMatch.id)]

populateFormWithOcrData(parsedData, options, form) ==
    IF parsedData = JsNull THEN form
    ELSE LET clientMatch == findBestMatch(parsedData.clientName,
                                          JsArray(form.clients), "name")
             chosen == ClientStep(clientMatch, parsedData, options, form)
         IN  IF chosen.returned THEN chosen
             ELSE FinishPopulate(PopulateItems(parsedData.items, 1, chosen))

\* Line 605: !parsedData.clientName || parsedData.items.length === 0.
UnusableReceipt(parsedData) ==
    Falsy(parsedData.clientName) \/ Len(parsedData.items) = 0

\* A handler that clears the selection before it looks at the receipt.
ClearBeforeCheck(parsedData, cs) == clearProductSelection(cs)

\* Lines 605-610: the cards as the try block leaves them before
\* populateFormWithOcrData is called; the throw of line 606 leaves the
\* block before clearProductSelection.
CardsAfterCheck(parsedData, cs) ==
    IF UnusableReceipt(parsedData) THEN cs ELSE clearProductSelection(cs)

\* handleImageUpload from the return of recognizeText on (lines 603-617):
\* appState and the form as it leaves them. The catch shows one error
\* notification.
AutofillForm(parsedData, clientArray, productArray, options, value, cs) ==
    LET start == [clients |-> clientArray, products |-> productArray,
                  value |-> value, cards |-> CardsAfterCheck(parsedData, cs),
                  toasts |-> <<>>, allItemsFound |-> TRUE,
                  returned |-> FALSE, raised |-> "no"]
        tried == CHOOSE form \in
                   { IF UnusableReceipt(parsedData)
                     THEN [start EXCEPT !.raised = "unusableReceipt"]
                     ELSE populateFormWithOcrData(parsedData, options, start) } :
                   TRUE
    IN  IF tried.raised = "no" THEN tried
        ELSE [tried EXCEPT !.toasts = Append(@, Toast("error", tried.raised, <<>>))]

(***************************************************************************)
(* js/ui.js: window.promptPayment (lines 1074-1080). prompt returns null   *)
(* or the string typed; amounts are counted in cents.                      *)
(***************************************************************************)
NaN == [t |-> "NaN"]

\* The extent of a decimal literal [+-]digits[.digits] at the start of s:
\* where its digits begin, where the integer part ends and where it ends.
DecimalLiteral(s) ==
    LET first == IF Len(s) > 0 /\ s[1] \in {"+", "-"} THEN 2 ELSE 1
        dot == SkipForward(s, first, Digits)
        end == IF dot <= Len(s) /\ s[dot] = "."
               THEN SkipForward(s, dot + 1, Digits)
               ELSE dot
        count == (dot - first) + (IF end > dot THEN end - dot - 1 ELSE 0)
    IN  [first |-> first, dot |-> dot,
         end |-> IF count = 0 THEN 0 ELSE IF end = dot + 1 THEN dot ELSE end,
         negative |-> Len(s) > 0 /\ s[1] = "-"]

\* The value in cents of the literal: the fraction's first two digits count.
LiteralCents(s, lit) ==
    LET whole == parseInt(SubSeq(s, lit.first, lit.dot - 1))
        frac == SubSeq(s, lit.dot + 1, lit.end - 1)
        tenths == IF Len(frac) >= 1 THEN DigitValue(frac[1]) ELSE 0
        hundredths == IF Len(frac) >= 2 THEN DigitValue(frac[2]) ELSE 0
        cents == 100 * whole + 10 * tenths + hundredths
    IN  IF lit.negative THEN 0 - cents ELSE cents

\* parseFloat(s): leading white space skipped, the longest decimal literal
\* read, what follows it ignored.
parseFloat(s) ==
    LET t == SubSeq(s, SkipForward(s, 1, Whitespace), Len(s))
        lit == DecimalLiteral(t)
    IN  IF lit.end = 0 THEN NaN ELSE JsNumber(LiteralCents(t, lit))

\* isNaN(s) of a string: Number(s) is 0 for a blank string, the literal's
\* value when the trimmed string is a literal as a whole, NaN otherwise.
isNaN(s) ==
    LET t == trim(s)
        lit == DecimalLiteral(t)
    IN  ~ (t = <<>> \/ (lit.end # 0 /\ (lit.end > Len(t)
                          \/ (lit.end = Len(t) /\ t[Len(t)] = "."))))

\* A test that lets a zero or negative amount through.
AcceptsAnyNumber(amount) ==
    /\ ~ Falsy(amount)
    /\ ~ isNaN(amount.s)

\* Line 1076: amount && !isNaN(amount) && parseFloat(amount) > 0.
AcceptsAmount(amount) ==
    /\ ~ Falsy(amount)
    /\ ~ isNaN(amount.s)
    /\ parseFloat(amount.s) # NaN
    /\ parseFloat(amount.s).n > 0

(***************************************************************************)
(* The values the variables of a component hold while another component's  *)
(* specification runs.                                                     *)
(***************************************************************************)
levVars == <<levA, levB, levResult>>
matchVars == <<query, candidates, match>>
parseVars == <<text, parsed>>
storeVars == <<clients, products, transactions>>
swVars == <<cacheStorage, swCalls, swPuts, swActivate>>
appVars == <<dbTxn, appClients, appProducts, selectOptions, selectValue, cards,
             toasts, ocrModal, imageUpload, statement, isLoading, handlers,
             swVars>>

\* A handler that is not running, and all of them not running.
Idle == [at |-> "idle"]
AllIdle ==
    [registerPayment |-> Idle, deleteClient |-> Idle,
     handleLaunchConfirm |-> Idle, handlePageNavigation |-> Idle]

LevIdle == levA = <<>> /\ levB = <<>> /\ levResult = 0
MatchIdle == query = JsNull /\ candidates = JsNull /\ match = JsNull
ParseIdle == text = JsNull /\ parsed = JsNull
StoreIdle == clients = {} /\ products = {} /\ transactions = <<>>
SwIdle ==
    /\ cacheStorage = <<>>
    /\ swCalls = <<>>
    /\ swPuts = {}
    /\ swActivate = Idle

AppIdle ==
    /\ dbTxn = JsNull
    /\ appClients = <<>> /\ appProducts = <<>>
    /\ selectOptions = {} /\ selectValue = 0
    /\ cards = <<>>
    /\ toasts = <<>>
    /\ ocrModal = FALSE
    /\ imageUpload = ""
    /\ statement = JsNull
    /\ isLoading = FALSE
    /\ handlers = AllIdle

(***************************************************************************)
(* levenshtein applied to every pair of strings of the bounded set.        *)
(***************************************************************************)
LevAlphabet == {"a", "b", "c"}
LevStrings == Strings(LevAlphabet, MaxLevLen)

InitLevenshtein ==
    /\ pc = "input"
    /\ levA \in LevStrings
    /\ levB \in LevStrings
    /\ levResult = 0
    /\ MatchIdle /\ ParseIdle /\ StoreIdle /\ AppIdle /\ SwIdle

Levenshtein ==
    /\ pc = "input"
    /\ levResult' = levenshtein(levA, levB)
    /\ pc' = "returned"
    /\ UNCHANGED <<levA, levB, matchVars, parseVars, storeVars, appVars>>

NextLevenshtein == Levenshtein

SpecLevenshtein == InitLevenshtein /\ [][NextLevenshtein]_vars

(***************************************************************************)
(* findBestMatch applied to bounded queries and candidate lists. Catalog   *)
(* names are trimmed and at least two characters long (validateName,       *)
(* utils.js 186-226); a candidate's id is its position in the list.        *)
(***************************************************************************)
QueryAlphabet == {"a", "b", "B"}
CatalogNames ==
    { <<"a", "b">>, <<"A", "B">>, <<"a", "a">>, <<"b", "a", "b">> }

MatchQueries ==
    {JsNull} \cup {JsString(s) : s \in Strings(QueryAlphabet, MaxQueryLen)}

CandidateList(names) ==
    JsArray([i \in 1..Len(names) |-> [id |-> i, name |-> names[i]]])

MatchCandidateLists ==
    {JsNull} \cup {CandidateList(names) : names \in Strings(CatalogNames, MaxCandidates)}

InitMatcher ==
    /\ pc = "input"
    /\ query \in MatchQueries
    /\ candidates \in MatchCandidateLists
    /\ match = JsNull
    /\ LevIdle /\ ParseIdle /\ StoreIdle /\ AppIdle /\ SwIdle

FindBestMatch ==
    /\ pc = "input"
    /\ match' = findBestMatch(query, candidates, "name")
    /\ pc' = "returned"
    /\ UNCHANGED <<query, candidates, levVars, parseVars, storeVars, appVars>>

NextMatcher == FindBestMatch

SpecMatcher == InitMatcher /\ [][NextMatcher]_vars

(***************************************************************************)
(* parseOcrResult applied to null, to a number and to the texts made of up *)
(* to MaxLines lines of OcrLines joined by "\n".                           *)
(***************************************************************************)
OcrLines ==
    { <<>>,
      <<" ">>,
      <<" ", "a", "b", "\t">>,
      <<"a", "b", " ", "=", " ", "2">>,
      <<"\t", "b", "=", "1", "0">>,
      <<"a", "b", " ", "3">>,
      <<"=", "3">>,
      <<"a", "=", "b", " ", "=", "0", "7", " ">>,
      <<"a", "=", "2", "x">>,
      <<"a", "=">> }

RECURSIVE join(_, _)
join(lines, sep) ==
    IF Len(lines) = 0 THEN <<>>
    ELSE IF Len(lines) = 1 THEN lines[1]
    ELSE lines[1] \o <<sep>> \o join(Tail(lines), sep)

ParseTexts ==
    {JsNull, JsNumber(7)}
        \cup {JsString(join(ls, "\n")) : ls \in Strings(OcrLines, MaxLines)}

InitParser ==
    /\ pc = "input"
    /\ text \in ParseTexts
    /\ parsed = JsNull
    /\ LevIdle /\ MatchIdle /\ StoreIdle /\ AppIdle /\ SwIdle

ParseOcrResult ==
    /\ pc = "input"
    /\ parsed' = parseOcrResult(text)
    /\ pc' = "returned"
    /\ UNCHANGED <<text, levVars, matchVars, storeVars, appVars>>

NextParser == ParseOcrResult

SpecParser == InitParser /\ [][NextParser]_vars

(***************************************************************************)
(* The store of a bar with two clients and two products, written by        *)
(* launches (addBatchTransaction), payments (addPayment) and deletions.    *)
(***************************************************************************)
ClientIds == {1, 2}
Catalog ==
    { [id |-> 1, name |-> <<"c", "a">>, price |-> 500],
      [id |-> 2, name |-> <<"c", "b">>, price |-> 250] }
LaunchItems ==
    { <<[productId |-> 1, qty |-> 3]>>,
      <<[productId |-> 2, qty |-> 1], [productId |-> 1, qty |-> 2]>> }
PaymentAmounts == {1000, 125}

InitStore ==
    /\ pc = "input"
    /\ clients = ClientIds
    /\ products = Catalog
    /\ transactions = <<>>
    /\ LevIdle /\ MatchIdle /\ ParseIdle /\ AppIdle /\ SwIdle

\* Store.addBatchTransaction (lines 241-268), all rows in one transaction.
\* The store does not look the products up: the ids are those of the grid
\* the launch screen rendered, whether or not the products still exist.
AddBatchTransaction ==
    \E c \in clients, items \in LaunchItems :
        /\ Len(transactions) + Len(items) <= MaxTx
        /\ transactions' = transactions \o BatchRows(c, items)
        /\ UNCHANGED <<pc, clients, products, levVars, matchVars, parseVars, appVars>>

\* Store.addPayment (lines 319-337).
AddPayment ==
    \E c \in clients, amount \in PaymentAmounts :
        /\ Len(transactions) < MaxTx
        /\ transactions' = Append(transactions, PaymentRow(c, amount))
        /\ UNCHANGED <<pc, clients, products, levVars, matchVars, parseVars, appVars>>

\* Store.deleteProduct (lines 161-176): the product's rows stay.
DeleteProduct ==
    \E p \in products :
        /\ products' = products \ {p}
        /\ UNCHANGED <<pc, clients, transactions, levVars, matchVars, parseVars, appVars>>

\* Store.deleteClient (lines 91-108): the client's rows, then the client,
\* in one transaction.
DeleteClient ==
    \E c \in clients :
        /\ transactions' = SelectSeq(transactions, LAMBDA tx : tx.clientId # c)
        /\ clients' = clients \ {c}
        /\ UNCHANGED <<pc, products, levVars, matchVars, parseVars, appVars>>

NextStore ==
    \/ AddBatchTransaction
    \/ AddPayment
    \/ DeleteProduct
    \/ DeleteClient

SpecStore == InitStore /\ [][NextStore]_vars

(***************************************************************************)
(* Store.deleteClient (lines 91-108) step by step. dbTxn is the open       *)
(* read-write transaction on clients and transactions: the client id, the  *)
(* step that comes next, its own view of the two tables and the number of  *)
(* rows it removed; once it has ended, the client id, how it ended and     *)
(* that number.                                                            *)
(***************************************************************************)
TxnOpen ==
    dbTxn # JsNull /\ dbTxn.step \in {"rows", "client", "commit", "add"}

\* A table written by each statement at once, without a transaction.
TableSeenWithoutTransaction(committed, working) == working

\* Line 94, db.transaction('rw', ...): what the rest of the application
\* reads of a table while the transaction is open.
TableSeen(committed, working) == committed

\* Line 94: the transaction begins.
DeleteClientBegin ==
    \E c \in ClientIds :
        /\ ~ TxnOpen
        /\ dbTxn' = [clientId |-> c, step |-> "rows", clients |-> clients,
                     transactions |-> transactions, removed |-> 0]
        /\ UNCHANGED <<pc, levVars, matchVars, parseVars, storeVars, appClients,
                       appProducts, selectOptions, selectValue, cards, toasts,
                       ocrModal, imageUpload, statement, isLoading, handlers,
                       swVars>>

\* Line 96: the client's rows are removed.
DeleteClientRows ==
    /\ TxnOpen /\ dbTxn.step = "rows"
    /\ LET kept == SelectSeq(dbTxn.transactions,
                             LAMBDA tx : tx.clientId # dbTxn.clientId)
       IN  /\ dbTxn' = [dbTxn EXCEPT !.step = "client", !.transactions = kept,
                           !.removed = Len(dbTxn.transactions) - Len(kept)]
           /\ transactions' = TableSeen(transactions, kept)
    /\ UNCHANGED <<pc, levVars, matchVars, parseVars, clients, products,
                   appClients, appProducts, selectOptions, selectValue, cards,
                   toasts, ocrModal, imageUpload, statement, isLoading,
                   handlers, swVars>>

\* Line 99: the client is removed.
DeleteClientRow ==
    /\ TxnOpen /\ dbTxn.step = "client"
    /\ dbTxn' = [dbTxn EXCEPT !.step = "commit",
                              !.clients = @ \ {dbTxn.clientId}]
    /\ clients' = TableSeen(clients, dbTxn'.clients)
    /\ UNCHANGED <<pc, levVars, matchVars, parseVars, products, transactions,
                   appClients, appProducts, selectOptions, selectValue, cards,
                   toasts, ocrModal, imageUpload, statement, isLoading,
                   handlers, swVars>>

\* Line 100: the transaction commits and deleteClient returns true.
DeleteClientCommit ==
    /\ TxnOpen /\ dbTxn.step = "commit"
    /\ clients' = dbTxn.clients
    /\ transactions' = dbTxn.transactions
    /\ dbTxn' = [clientId |-> dbTxn.clientId, step |-> "done",
                 removed |-> dbTxn.removed]
    /\ UNCHANGED <<pc, levVars, matchVars, parseVars, products, appClients,
                   appProducts, selectOptions, selectValue, cards, toasts,
                   ocrModal, imageUpload, statement, isLoading, handlers,
                   swVars>>

\* Lines 104-107: a statement or the commit fails, the transaction is
\* rolled back and deleteClient throws.
DeleteClientFails ==
    /\ TxnOpen
    /\ dbTxn' = [clientId |-> dbTxn.clientId, step |-> "failed",
                 removed |-> dbTxn.removed]
    /\ UNCHANGED <<pc, levVars, matchVars, parseVars, storeVars, appClients,
                   appProducts, selectOptions, selectValue, cards, toasts,
                   ocrModal, imageUpload, statement, isLoading, handlers,
                   swVars>>

\* Launches and payments wait while the transaction holds the tables.
NextDeleteClient ==
    \/ ~ TxnOpen /\ AddBatchTransaction
    \/ ~ TxnOpen /\ AddPayment
    \/ DeleteClientBegin
    \/ DeleteClientRows
    \/ DeleteClientRow
    \/ DeleteClientCommit
    \/ DeleteClientFails

SpecDeleteClient == InitStore /\ [][NextDeleteClient]_vars

(***************************************************************************)
(* Store.addBatchTransaction (lines 241-268) step by step. dbTxn is the    *)
(* open read-write transaction on transactions: the client id, the items,  *)
(* the index of the item the loop adds next, the timestamp read before     *)
(* the transaction began and its own view of the table; once it has ended, *)
(* how it ended and the number of add statements that had run.             *)
(***************************************************************************)
MaxNow == 2

\* Line 244, Date.now(): the values the clock may show.
Now == 1..MaxNow

\* A row stamped by its position in the batch.
BatchRowStampedPerItem(clientId, item, timestamp) ==
    [clientId |-> clientId, productId |-> item.productId, qty |-> item.qty,
     type |-> "debit", timestamp |-> timestamp + item.productId]

\* Lines 251-257: the object one iteration of the loop adds. parseInt
\* leaves the integers that getLaunchData passes as they are.
BatchRow(clientId, item, timestamp) ==
    [clientId |-> clientId, productId |-> item.productId, qty |-> item.qty,
     type |-> "debit", timestamp |-> timestamp]

\* Lines 243-249: the arguments are taken apart, the clock is read and the
\* transaction begins.
AddBatchBegin ==
    \E c \in clients, items \in LaunchItems, timestamp \in Now :
        /\ ~ TxnOpen
        /\ Len(transactions) + Len(items) <= MaxTx
        /\ dbTxn' = [clientId |-> c, step |-> "add", items |-> items,
                     next |-> 1, timestamp |-> timestamp,
                     transactions |-> transactions]
        /\ UNCHANGED <<pc, levVars, matchVars, parseVars, storeVars, appClients,
                       appProducts, selectOptions, selectValue, cards, toasts,
                       ocrModal, imageUpload, statement, isLoading, handlers,
                       swVars>>

\* Lines 250-259: one iteration of the loop.
AddBatchRow ==
    /\ TxnOpen /\ dbTxn.step = "add" /\ dbTxn.next <= Len(dbTxn.items)
    /\ LET working == Append(dbTxn.transactions,
                             BatchRow(dbTxn.clientId, dbTxn.items[dbTxn.next],
                                      dbTxn.timestamp))
       IN  /\ dbTxn' = [dbTxn EXCEPT !.next = @ + 1, !.transactions = working]
           /\ transactions' = TableSeen(transactions, working)
    /\ UNCHANGED <<pc, levVars, matchVars, parseVars, clients, products,
                   appClients, appProducts, selectOptions, selectValue, cards,
                   toasts, ocrModal, imageUpload, statement, isLoading,
                   handlers, swVars>>

\* Lines 260-263: the loop is over, the transaction commits and the ids are
\* returned.
AddBatchCommit ==
    /\ TxnOpen /\ dbTxn.step = "add" /\ dbTxn.next > Len(dbTxn.items)
    /\ transactions' = dbTxn.transactions
    /\ dbTxn' = [clientId |-> dbTxn.clientId, step |-> "added",
                 items |-> dbTxn.items, timestamp |-> dbTxn.timestamp,
                 added |-> dbTxn.next - 1]
    /\ UNCHANGED <<pc, levVars, matchVars, parseVars, clients, products,
                   appClients, appProducts, selectOptions, selectValue, cards,
                   toasts, ocrModal, imageUpload, statement, isLoading,
                   handlers, swVars>>

\* Lines 264-267: an add or the commit fails, the transaction is rolled
\* back and addBatchTransaction throws.
AddBatchFails ==
    /\ TxnOpen /\ dbTxn.step = "add"
    /\ dbTxn' = [clientId |-> dbTxn.clientId, step |-> "notAdded",
                 items |-> dbTxn.items, timestamp |-> dbTxn.timestamp,
                 added |-> dbTxn.next - 1]
    /\ UNCHANGED <<pc, levVars, matchVars, parseVars, storeVars, appClients,
                   appProducts, selectOptions, selectValue, cards, toasts,
                   ocrModal, imageUpload, statement, isLoading, handlers,
                   swVars>>

\* Deletions wait while the transaction holds the table.
NextBatch ==
    \/ AddBatchBegin
    \/ AddBatchRow
    \/ AddBatchCommit
    \/ AddBatchFails
    \/ ~ TxnOpen /\ DeleteClient
    \/ ~ TxnOpen /\ DeleteProduct

SpecBatch == InitStore /\ [][NextBatch]_vars

(***************************************************************************)
(* The application: main.js's handlers over the store, appState and the    *)
(* launch form. pc is the position of handleImageUpload: "idle", or        *)
(* "recognizing" while it awaits OCRService.recognizeText.                 *)
(***************************************************************************)
MaxQty == 1
MaxReceiptItems == 2
MaxLaunchTx == 1
MaxConfirmTx == 2

\* What the receipts of the model read: a client line, then item lines.
ReceiptClientLines == {<<"a", "b">>, <<"b", "b">>, <<"c", "c">>}
ReceiptItemLines ==
    { <<"c", "a", "=", "2">>,
      <<"c", "b", " ", "=", " ", "0">>,
      <<"z", "z", "=", "1">>,
      <<"c", "c", "=", "1">> }
Receipts ==
    { <<>>, <<" ", "\n">> }
        \cup { join(<<c>> \o ls, "\n") :
                 c \in ReceiptClientLines,
                 ls \in Strings(ReceiptItemLines, MaxReceiptItems) }

\* The receipt read while launches are being written: it fills the form
\* with a zero and a positive quantity.
LaunchReceipts ==
    { join(<<<<"a", "b">>, <<"c", "b", "=", "0">>, <<"c", "a", "=", "2">>>>, "\n") }

\* What the user may type into the payment prompt (null: cancelled).
PromptInputs ==
    { JsNull, JsString(<<>>), JsString(<<"a">>), JsString(<<"0">>),
      JsString(<<"-", "5">>), JsString(<<"1", ".", "2", "5">>),
      JsString(<<" ", "1", "0">>), JsString(<<"5", "a">>) }

\* The inputs typed while products are being deleted: one that is written
\* and one that is not.
LaunchPromptInputs == {JsString(<<"0">>), JsString(<<"1", ".", "2", "5">>)}

\* A receipt for each way the autofill ends: nothing usable, the client
\* unknown, an item unknown, everything found.
UploadReceipts ==
    { <<>>,
      join(<<<<"c", "c">>, <<"c", "a", "=", "2">>>>, "\n"),
      join(<<<<"a", "b">>, <<"c", "a", "=", "2">>, <<"z", "z", "=", "1">>>>, "\n"),
      join(<<<<"a", "b">>, <<"c", "a", "=", "2">>>>, "\n") }

\* init (lines 30-59): the data loaded and the launch screen rendered.
InitApp ==
    /\ pc = "idle"
    /\ LevIdle /\ MatchIdle /\ ParseIdle
    /\ clients = ClientIds
    /\ products = Catalog
    /\ transactions = <<>>
    /\ dbTxn = JsNull
    /\ appClients = getAllClients(clients)
    /\ appProducts = getAllProducts(products)
    /\ selectOptions = populateClientSelector(appClients)
    /\ selectValue = 0
    /\ cards = renderProductsGrid(appProducts)
    /\ toasts = <<>>
    /\ ocrModal = FALSE
    /\ imageUpload = ""
    /\ statement = JsNull
    /\ isLoading = FALSE
    /\ handlers = AllIdle
    /\ SwIdle

\* handlePageNavigation('page-lancamento') (lines 140-173): loadInitialData
\* and renderLaunchScreen.
HandlePageNavigation ==
    /\ appClients' = getAllClients(clients)
    /\ appProducts' = getAllProducts(products)
    /\ selectOptions' = populateClientSelector(appClients')
    /\ selectValue' = 0
    /\ cards' = renderProductsGrid(appProducts')
    /\ toasts' = <<>>
    /\ isLoading' = FALSE
    /\ UNCHANGED <<pc, levVars, matchVars, parseVars, storeVars, dbTxn,
                   ocrModal, imageUpload, statement, handlers, swVars>>

\* A click on a product card (ui.js lines 650-676).
HandleProductSelection ==
    \E i \in 1..Len(cards) :
        /\ cards[i].quantity < MaxQty
        /\ cards' = handleProductSelection(cards, cards[i].productId)
        /\ toasts' = <<>>
        /\ UNCHANGED <<pc, levVars, matchVars, parseVars, storeVars, dbTxn,
                       appClients, appProducts, selectOptions, selectValue,
                       ocrModal, imageUpload, statement, isLoading, handlers,
                       swVars>>

\* The user picks an option of #select-client.
ChooseClient ==
    \E c \in selectOptions \cup {0} :
        /\ c # selectValue
        /\ selectValue' = c
        /\ toasts' = <<>>
        /\ UNCHANGED <<pc, levVars, matchVars, parseVars, storeVars, dbTxn,
                       appClients, appProducts, selectOptions, cards,
                       ocrModal, imageUpload, statement, isLoading, handlers,
                       swVars>>

\* handleLaunchConfirm (lines 349-399), with the table holding at most
\* maxRows rows. addBatchTransaction either commits all its rows or fails
\* and commits none.
LaunchConfirm(maxRows) ==
    LET launchData == getLaunchData(selectValue, cards)
    IN  /\ \/ /\ launchData = JsNull
              /\ toasts' = <<Toast("warning", "selectClientAndProduct", <<>>)>>
              /\ UNCHANGED <<transactions, cards, selectValue>>
           \/ /\ launchData # JsNull
              /\ Len(transactions) + Len(launchData.items) <= maxRows
              /\ transactions' = transactions
                         \o BatchRows(launchData.clientId, launchData.items)
              /\ cards' = clearProductSelection(cards)
              /\ selectValue' = 0
              /\ toasts' = <<Toast("success", "launchRegistered", <<>>)>>
           \/ /\ launchData # JsNull
              /\ toasts' = <<Toast("error", "launchFailed", <<>>)>>
              /\ UNCHANGED <<transactions, cards, selectValue>>
        /\ isLoading' = FALSE
        /\ UNCHANGED <<pc, levVars, matchVars, parseVars, clients, products,
                       dbTxn, appClients, appProducts, selectOptions,
                       ocrModal, imageUpload,
                       statement, handlers, swVars>>

HandleLaunchConfirm == LaunchConfirm(MaxLaunchTx)

\* handleLaunchCancel (lines 403-414).
HandleLaunchCancel ==
    /\ cards' = clearProductSelection(cards)
    /\ selectValue' = 0
    /\ toasts' = <<Toast("warning", "launchCancelled", <<>>)>>
    /\ UNCHANGED <<pc, levVars, matchVars, parseVars, storeVars, dbTxn,
                   appClients, appProducts, selectOptions, ocrModal,
                   imageUpload, statement,
                   isLoading, handlers, swVars>>

\* main.js deleteProduct (lines 496-521), called for a row of the product
\* list: the product deleted, appState.products fetched again, the product
\* list rendered. The cards of the launch screen are not rendered again.
MainDeleteProduct ==
    \E i \in 1..Len(appProducts) :
        /\ products' = {p \in products : p.id # appProducts[i].id}
        /\ appProducts' = getAllProducts(products')
        /\ toasts' = <<Toast("success", "productDeleted", appProducts[i].name)>>
        /\ isLoading' = FALSE
        /\ UNCHANGED <<pc, levVars, matchVars, parseVars, clients, transactions,
                       dbTxn, appClients, selectOptions, selectValue, cards,
                       ocrModal, imageUpload, statement, handlers, swVars>>

\* What #image-upload holds once the user has chosen a file.
ChosenFile == "nota.jpg"

\* A modal that stays displayed whatever it is told.
showOcrStatusStuck(visible) == TRUE

\* showOcrStatus (ui.js lines 953-962): display flex or none.
showOcrStatus(visible) == visible

\* handleImageUpload (lines 590-601), the change event of #image-upload
\* with a file chosen, up to the await of recognizeText; the call's text
\* and parsedData are not bound yet.
HandleImageUpload ==
    /\ pc = "idle"
    /\ pc' = "recognizing"
    /\ text' = JsNull
    /\ parsed' = JsNull
    /\ ocrModal' = showOcrStatus(TRUE)
    /\ imageUpload' = ChosenFile
    /\ toasts' = <<>>
    /\ UNCHANGED <<levVars, matchVars, storeVars, dbTxn, appClients,
                   appProducts, selectOptions, selectValue, cards, statement,
                   isLoading, handlers, swVars>>

\* handleImageUpload from the text that recognizeText resolved with to the
\* end of the finally block (lines 603-623).
RecognizeTextResolves(texts) ==
    \E txt \in texts :
        /\ pc = "recognizing"
        /\ pc' = "idle"
        /\ text' = JsString(txt)
        /\ parsed' = parseOcrResult(text')
        /\ \E form \in {AutofillForm(parsed', appClients, appProducts,
                                     selectOptions, selectValue, cards)} :
               /\ appClients' = form.clients
               /\ appProducts' = form.products
               /\ selectValue' = form.value
               /\ cards' = form.cards
               /\ toasts' = form.toasts
        /\ ocrModal' = showOcrStatus(FALSE)
        /\ imageUpload' = ""
        /\ UNCHANGED <<levVars, matchVars, storeVars, dbTxn, selectOptions,
                       statement, isLoading, handlers, swVars>>

\* handleImageUpload when recognizeText rejects: the catch and the finally.
RecognizeTextRejects ==
    /\ pc = "recognizing"
    /\ pc' = "idle"
    /\ toasts' = <<Toast("error", "recognitionFailed", <<>>)>>
    /\ ocrModal' = showOcrStatus(FALSE)
    /\ imageUpload' = ""
    /\ UNCHANGED <<levVars, matchVars, parseVars, storeVars, dbTxn, appClients,
                   appProducts, selectOptions, selectValue, cards, statement,
                   isLoading, handlers, swVars>>

\* viewClientStatement (main.js lines 422-458), called for a row of the
\* client list.
ViewClientStatement ==
    \E i \in 1..Len(appClients) :
        LET clientId == appClients[i].id
            client == getClientById(clients, clientId)
        IN  /\ IF client = JsNull
               THEN /\ toasts' = <<Toast("error", "clientNotFound", <<>>)>>
                    /\ UNCHANGED statement
               ELSE /\ statement' = renderClientStatement(client,
                            getTransactionsByClientId(transactions, clientId),
                            appProducts,
                            getClientBalance(transactions, products, clientId))
                    /\ toasts' = <<>>
            /\ isLoading' = FALSE
            /\ UNCHANGED <<pc, levVars, matchVars, parseVars, storeVars, dbTxn,
                           appClients, appProducts, selectOptions, selectValue,
                           cards, ocrModal, imageUpload, handlers, swVars>>

\* window.promptPayment (ui.js lines 1074-1080), the button of the rendered
\* statement, and registerPayment (main.js lines 528-564).
PromptPayment(inputs) ==
    \E amount \in inputs :
        /\ statement # JsNull
        /\ LET clientId == statement.clientId
               client == getClientById(clients, clientId)
           IN  IF ~ AcceptsAmount(amount)
               THEN UNCHANGED <<transactions, statement, toasts, isLoading>>
               ELSE IF client = JsNull
               THEN /\ toasts' = <<Toast("error", "clientNotFound", <<>>)>>
                    /\ isLoading' = FALSE
                    /\ UNCHANGED <<transactions, statement>>
               ELSE /\ Len(transactions) < MaxLaunchTx
                    /\ isLoading' = FALSE
                    /\ transactions' = Append(transactions,
                           PaymentRow(clientId, parseFloat(amount.s).n))
                    /\ statement' = renderClientStatement(client,
                           getTransactionsByClientId(transactions', clientId),
                           appProducts,
                           getClientBalance(transactions', products, clientId))
                    /\ toasts' = <<Toast("success", "paymentRegistered", <<>>)>>
        /\ UNCHANGED <<pc, levVars, matchVars, parseVars, clients, products,
                       dbTxn, appClients, appProducts, selectOptions,
                       selectValue, cards, ocrModal, imageUpload, handlers,
                       swVars>>

\* The launch form under the autofill: clicks, the client select and the
\* receipts read.
NextAutofill ==
    \/ HandleProductSelection
    \/ ChooseClient
    \/ HandleLaunchCancel
    \/ HandleImageUpload
    \/ RecognizeTextResolves(Receipts)
    \/ RecognizeTextRejects

SpecAutofill == InitApp /\ [][NextAutofill]_vars

\* Launches written from a grid that deletions make stale, payments and
\* the statements rendered.
NextLaunch ==
    \/ HandlePageNavigation
    \/ HandleProductSelection
    \/ ChooseClient
    \/ HandleLaunchConfirm
    \/ MainDeleteProduct
    \/ ViewClientStatement
    \/ PromptPayment(LaunchPromptInputs)

SpecLaunch == InitApp /\ [][NextLaunch]_vars

\* What is written to the transactions table: launches from clicks and from
\* receipts read, and payments from the prompt.
NextEntries ==
    \/ HandleProductSelection
    \/ ChooseClient
    \/ HandleImageUpload
    \/ RecognizeTextResolves(LaunchReceipts)
    \/ HandleLaunchConfirm
    \/ ViewClientStatement
    \/ PromptPayment(PromptInputs)

SpecEntries == InitApp /\ [][NextEntries]_vars

\* The launch form confirmed and cancelled: launches of one or more rows.
NextConfirm ==
    \/ HandleProductSelection
    \/ ChooseClient
    \/ LaunchConfirm(MaxConfirmTx)
    \/ HandleLaunchCancel

SpecConfirm == InitApp /\ [][NextConfirm]_vars

\* The upload of a receipt image. The recognition engine returns a text or
\* fails: a call of recognizeText does not stay pending for ever.
NextUpload ==
    \/ HandleProductSelection
    \/ ChooseClient
    \/ HandleImageUpload
    \/ RecognizeTextResolves(UploadReceipts)
    \/ RecognizeTextRejects

SpecUpload ==
    /\ InitApp
    /\ [][NextUpload]_vars
    /\ WF_vars(RecognizeTextResolves(UploadReceipts) \/ RecognizeTextRejects)

(***************************************************************************)
(* main.js's asynchronous handlers step by step: a step runs a handler     *)
(* from one await to the next, and the steps of different handlers         *)
(* interleave. A store call is one request, served when the handler's next *)
(* step is taken. Each handler runs at most once at a time.                *)
(***************************************************************************)
Running(h) == handlers[h].at # "idle"

\* window.promptPayment (ui.js lines 1074-1080) calls registerPayment, which
\* runs up to the await of Store.getClientById (main.js lines 528-533).
PromptPaymentBegin(inputs) ==
    \E amount \in inputs :
        /\ statement # JsNull
        /\ ~ Running("registerPayment")
        /\ AcceptsAmount(amount)
        /\ handlers' = [handlers EXCEPT !.registerPayment =
                           [at |-> "getClientById",
                            clientId |-> statement.clientId,
                            amount |-> parseFloat(amount.s).n]]
        /\ isLoading' = TRUE
        /\ toasts' = <<>>
        /\ UNCHANGED <<pc, levVars, matchVars, parseVars, storeVars, dbTxn,
                       appClients, appProducts, selectOptions, selectValue,
                       cards, ocrModal, imageUpload, statement, swVars>>

\* Lines 533-540: the client is read; without one the handler ends, with
\* one it calls Store.addPayment.
RegisterPaymentClientRead ==
    /\ handlers.registerPayment.at = "getClientById"
    /\ LET client == getClientById(clients, handlers.registerPayment.clientId)
       IN  IF client = JsNull
           THEN /\ toasts' = <<Toast("error", "clientNotFound", <<>>)>>
                /\ handlers' = [handlers EXCEPT !.registerPayment = Idle]
                /\ isLoading' = FALSE
           ELSE /\ toasts' = <<>>
                /\ handlers' = [handlers EXCEPT !.registerPayment =
                       [at |-> "addPayment", clientId |-> @.clientId,
                        amount |-> @.amount, client |-> client]]
                /\ UNCHANGED isLoading
    /\ UNCHANGED <<pc, levVars, matchVars, parseVars, storeVars, dbTxn,
                   appClients, appProducts, selectOptions, selectValue, cards,
                   ocrModal, imageUpload, statement, swVars>>

\* Lines 540-546: Store.addPayment has added its row; the handler asks for
\* the client's rows and balance.
RegisterPaymentAdded ==
    /\ handlers.registerPayment.at = "addPayment"
    /\ Len(transactions) < MaxLaunchTx
    /\ transactions' = Append(transactions,
           PaymentRow(handlers.registerPayment.clientId,
                      handlers.registerPayment.amount))
    /\ handlers' = [handlers EXCEPT !.registerPayment.at = "reload"]
    /\ toasts' = <<>>
    /\ UNCHANGED <<pc, levVars, matchVars, parseVars, clients, products, dbTxn,
                   appClients, appProducts, selectOptions, selectValue, cards,
                   ocrModal, imageUpload, statement, isLoading, swVars>>

\* Lines 543-563: the statement is rendered from the rows read and the
\* handler ends.
RegisterPaymentReloaded ==
    /\ handlers.registerPayment.at = "reload"
    /\ LET clientId == handlers.registerPayment.clientId
       IN  statement' = renderClientStatement(handlers.registerPayment.client,
               getTransactionsByClientId(transactions, clientId),
               appProducts,
               getClientBalance(transactions, products, clientId))
    /\ toasts' = <<Toast("success", "paymentRegistered", <<>>)>>
    /\ handlers' = [handlers EXCEPT !.registerPayment = Idle]
    /\ isLoading' = FALSE
    /\ UNCHANGED <<pc, levVars, matchVars, parseVars, storeVars, dbTxn,
                   appClients, appProducts, selectOptions, selectValue, cards,
                   ocrModal, imageUpload, swVars>>

\* Lines 558-563: a store call of registerPayment rejects.
RegisterPaymentFails ==
    /\ Running("registerPayment")
    /\ toasts' = <<Toast("error", "paymentFailed", <<>>)>>
    /\ handlers' = [handlers EXCEPT !.registerPayment = Idle]
    /\ isLoading' = FALSE
    /\ UNCHANGED <<pc, levVars, matchVars, parseVars, storeVars, dbTxn,
                   appClients, appProducts, selectOptions, selectValue, cards,
                   ocrModal, imageUpload, statement, swVars>>

\* main.js deleteClient (lines 465-470), called for a row of the client
\* list, up to the await of Store.getClientById.
MainDeleteClientBegin ==
    \E i \in 1..Len(appClients) :
        /\ ~ Running("deleteClient")
        /\ handlers' = [handlers EXCEPT !.deleteClient =
                           [at |-> "getClientById", clientId |-> appClients[i].id]]
        /\ isLoading' = TRUE
        /\ toasts' = <<>>
        /\ UNCHANGED <<pc, levVars, matchVars, parseVars, storeVars, dbTxn,
                       appClients, appProducts, selectOptions, selectValue,
                       cards, ocrModal, imageUpload, statement, swVars>>

\* Lines 470-474: the name is read for the notification, whether or not
\* there is a client; the handler calls Store.deleteClient.
MainDeleteClientRead ==
    /\ handlers.deleteClient.at = "getClientById"
    /\ handlers' = [handlers EXCEPT !.deleteClient =
           [at |-> "deleteClient", clientId |-> @.clientId,
            client |-> getClientById(clients, @.clientId)]]
    /\ toasts' = <<>>
    /\ UNCHANGED <<pc, levVars, matchVars, parseVars, storeVars, dbTxn,
                   appClients, appProducts, selectOptions, selectValue, cards,
                   ocrModal, imageUpload, statement, isLoading, swVars>>

\* Lines 474-477: Store.deleteClient has committed; the handler asks for
\* the clients.
MainDeleteClientDeleted ==
    /\ handlers.deleteClient.at = "deleteClient"
    /\ transactions' = SelectSeq(transactions,
           LAMBDA tx : tx.clientId # handlers.deleteClient.clientId)
    /\ clients' = clients \ {handlers.deleteClient.clientId}
    /\ handlers' = [handlers EXCEPT !.deleteClient.at = "getAllClients"]
    /\ toasts' = <<>>
    /\ UNCHANGED <<pc, levVars, matchVars, parseVars, products, dbTxn,
                   appClients, appProducts, selectOptions, selectValue, cards,
                   ocrModal, imageUpload, statement, isLoading, swVars>>

\* Lines 477-489: appState.clients is fetched again and the client list
\* rendered; the client selector of the launch screen is not.
MainDeleteClientRefetched ==
    /\ handlers.deleteClient.at = "getAllClients"
    /\ appClients' = getAllClients(clients)
    /\ toasts' = <<Toast("success", "clientDeleted", <<>>)>>
    /\ handlers' = [handlers EXCEPT !.deleteClient = Idle]
    /\ isLoading' = FALSE
    /\ UNCHANGED <<pc, levVars, matchVars, parseVars, storeVars, dbTxn,
                   appProducts, selectOptions, selectValue, cards, ocrModal,
                   imageUpload,
                   statement, swVars>>

\* Lines 484-489: a store call of deleteClient rejects.
MainDeleteClientFails ==
    /\ Running("deleteClient")
    /\ toasts' = <<Toast("error", "deleteClientFailed", <<>>)>>
    /\ handlers' = [handlers EXCEPT !.deleteClient = Idle]
    /\ isLoading' = FALSE
    /\ UNCHANGED <<pc, levVars, matchVars, parseVars, storeVars, dbTxn,
                   appClients, appProducts, selectOptions, selectValue, cards,
                   ocrModal, imageUpload, statement, swVars>>

\* handleLaunchConfirm (lines 349-362) up to the await of
\* Store.addBatchTransaction; without launch data it ends at line 358.
LaunchConfirmBegin ==
    /\ ~ Running("handleLaunchConfirm")
    /\ LET launchData == getLaunchData(selectValue, cards)
       IN  IF launchData = JsNull
           THEN /\ toasts' = <<Toast("warning", "selectClientAndProduct", <<>>)>>
                /\ isLoading' = FALSE
                /\ UNCHANGED handlers
           ELSE /\ toasts' = <<>>
                /\ isLoading' = TRUE
                /\ handlers' = [handlers EXCEPT !.handleLaunchConfirm =
                       [at |-> "addBatchTransaction", launchData |-> launchData]]
    /\ UNCHANGED <<pc, levVars, matchVars, parseVars, storeVars, dbTxn,
                   appClients, appProducts, selectOptions, selectValue, cards,
                   ocrModal, imageUpload, statement, swVars>>

\* Lines 362-398: Store.addBatchTransaction has committed its rows; the
\* form is cleared and the handler ends.
LaunchConfirmStored ==
    /\ handlers.handleLaunchConfirm.at = "addBatchTransaction"
    /\ LET launchData == handlers.handleLaunchConfirm.launchData
       IN  /\ Len(transactions) + Len(launchData.items) <= MaxLaunchTx
           /\ transactions' = transactions
                      \o BatchRows(launchData.clientId, launchData.items)
    /\ cards' = clearProductSelection(cards)
    /\ selectValue' = 0
    /\ toasts' = <<Toast("success", "launchRegistered", <<>>)>>
    /\ handlers' = [handlers EXCEPT !.handleLaunchConfirm = Idle]
    /\ isLoading' = FALSE
    /\ UNCHANGED <<pc, levVars, matchVars, parseVars, clients, products, dbTxn,
                   appClients, appProducts, selectOptions, ocrModal,
                   imageUpload, statement, swVars>>

\* Lines 393-398: Store.addBatchTransaction rejects.
LaunchConfirmFails ==
    /\ handlers.handleLaunchConfirm.at = "addBatchTransaction"
    /\ toasts' = <<Toast("error", "launchFailed", <<>>)>>
    /\ handlers' = [handlers EXCEPT !.handleLaunchConfirm = Idle]
    /\ isLoading' = FALSE
    /\ UNCHANGED <<pc, levVars, matchVars, parseVars, storeVars, dbTxn,
                   appClients, appProducts, selectOptions, selectValue, cards,
                   ocrModal, imageUpload, statement, swVars>>

\* handlePageNavigation('page-lancamento') (lines 140-147) up to the await
\* of loadInitialData(), which has run up to its own await (lines 87-97):
\* setLoading(true) twice.
NavigationBegin ==
    /\ ~ Running("handlePageNavigation")
    /\ handlers' = [handlers EXCEPT !.handlePageNavigation =
                       [at |-> "loadInitialData"]]
    /\ isLoading' = TRUE
    /\ toasts' = <<>>
    /\ UNCHANGED <<pc, levVars, matchVars, parseVars, storeVars, dbTxn,
                   appClients, appProducts, selectOptions, selectValue, cards,
                   ocrModal, imageUpload, statement, swVars>>

\* loadInitialData from its await to its end (lines 94-110): the arrays
\* are stored and its finally block runs; handlePageNavigation has yet to
\* resume.
LoadInitialDataLoaded ==
    /\ handlers.handlePageNavigation.at = "loadInitialData"
    /\ appClients' = getAllClients(clients)
    /\ appProducts' = getAllProducts(products)
    /\ isLoading' = FALSE
    /\ handlers' = [handlers EXCEPT !.handlePageNavigation.at =
                       "renderLaunchScreen"]
    /\ toasts' = <<>>
    /\ UNCHANGED <<pc, levVars, matchVars, parseVars, storeVars, dbTxn,
                   selectOptions, selectValue, cards, ocrModal, imageUpload,
                   statement, swVars>>

\* loadInitialData when a read rejects (lines 105-110): it notifies and
\* returns.
LoadInitialDataFails ==
    /\ handlers.handlePageNavigation.at = "loadInitialData"
    /\ toasts' = <<Toast("error", "loadFailed", <<>>)>>
    /\ isLoading' = FALSE
    /\ handlers' = [handlers EXCEPT !.handlePageNavigation.at =
                       "renderLaunchScreen"]
    /\ UNCHANGED <<pc, levVars, matchVars, parseVars, storeVars, dbTxn,
                   appClients, appProducts, selectOptions, selectValue, cards,
                   ocrModal, imageUpload, statement, swVars>>

\* handlePageNavigation resumed (lines 148-172): the launch screen is
\* rendered and the finally block runs.
NavigationRendered ==
    /\ handlers.handlePageNavigation.at = "renderLaunchScreen"
    /\ selectOptions' = populateClientSelector(appClients)
    /\ selectValue' = 0
    /\ cards' = renderProductsGrid(appProducts)
    /\ toasts' = <<>>
    /\ handlers' = [handlers EXCEPT !.handlePageNavigation = Idle]
    /\ isLoading' = FALSE
    /\ UNCHANGED <<pc, levVars, matchVars, parseVars, storeVars, dbTxn,
                   appClients, appProducts, ocrModal, imageUpload, statement,
                   swVars>>

\* Payments that overlap the deletion of a client.
NextOverlap ==
    \/ ViewClientStatement
    \/ PromptPaymentBegin(LaunchPromptInputs)
    \/ RegisterPaymentClientRead
    \/ RegisterPaymentAdded
    \/ RegisterPaymentReloaded
    \/ RegisterPaymentFails
    \/ MainDeleteClientBegin
    \/ MainDeleteClientRead
    \/ MainDeleteClientDeleted
    \/ MainDeleteClientRefetched
    \/ MainDeleteClientFails

SpecOverlap == InitApp /\ [][NextOverlap]_vars

\* The loading flag under a navigation and a launch that may overlap.
NextLoading ==
    \/ HandleProductSelection
    \/ ChooseClient
    \/ LaunchConfirmBegin
    \/ LaunchConfirmStored
    \/ LaunchConfirmFails
    \/ NavigationBegin
    \/ LoadInitialDataLoaded
    \/ LoadInitialDataFails
    \/ NavigationRendered

SpecLoading == InitApp /\ [][NextLoading]_vars

(***************************************************************************)
(* sw.js: the service worker. A response is a record of its status and of  *)
(* where its body came from; a cache is a record of its name and of its    *)
(* entries, a function from the URLs it holds to responses; the cache      *)
(* storage is the sequence of the caches in the order they were created.   *)
(* While requests are served the calls of the cache storage succeed; the   *)
(* network answers with any status or fails.                               *)
(***************************************************************************)
MaxCalls == 1

\* Line 10.
CACHE_NAME == "meu-bar-pwa-v1.0.0"

\* Lines 13-36, the files among ESSENTIAL_FILES that the model requests.
ESSENTIAL_FILES == {"/", "/index.html", "/js/main.js"}

\* Line 39.
NETWORK_FIRST_URLS == {}

\* Lines 42-47, the paths among IGNORED_URLS that the model requests.
IGNORED_URLS == {"/sw.js"}

\* shouldIgnoreRequest (lines 162-172).
shouldIgnoreRequest(request) ==
    request.method # "GET" \/ request.url \in IGNORED_URLS

\* isNetworkFirstUrl (lines 179-183).
isNetworkFirstUrl(url) == url \in NETWORK_FIRST_URLS

\* What a cache of an earlier version, the installation and the network
\* answer with.
OldResponse == [status |-> 200, body |-> "old"]
InstalledResponse == [status |-> 200, body |-> "installed"]
NetworkResponse(status) == [status |-> status, body |-> "network"]

\* Lines 241-247: the response made up when nothing else is left.
OfflineResponse == [status |-> 503, body |-> "Service Unavailable"]

\* A lookup in the oldest cache only.
cachesMatchOldestOnly(storage, url, i) ==
    IF Len(storage) > 0 /\ url \in DOMAIN storage[1].entries
    THEN storage[1].entries[url]
    ELSE JsNull

\* caches.match (lines 199, 227, 236): the first cache, in creation order,
\* that holds the URL answers; JsNull stands for undefined.
RECURSIVE cachesMatch(_, _, _)
cachesMatch(storage, url, i) ==
    IF i > Len(storage) THEN JsNull
    ELSE IF url \in DOMAIN storage[i].entries THEN storage[i].entries[url]
    ELSE cachesMatch(storage, url, i + 1)

CacheNames(storage) == {storage[i].name : i \in 1..Len(storage)}

\* caches.open (line 212, line 75): the cache is created when there is none
\* of that name.
cachesOpen(storage, name) ==
    IF name \in CacheNames(storage) THEN storage
    ELSE Append(storage, [name |-> name, entries |-> <<>>])

\* cache.put (line 216) on the cache of that name.
cachePut(storage, name, url, response) ==
    [i \in 1..Len(storage) |->
        IF storage[i].name # name THEN storage[i]
        ELSE [storage[i] EXCEPT !.entries =
                 [u \in DOMAIN @ \cup {url} |->
                     IF u = url THEN response ELSE @[u]]]]

\* caches.delete (line 124).
cachesDelete(storage, name) ==
    SelectSeq(storage, LAMBDA cache : cache.name # name)

\* A test that lets every answer of the network into the cache.
CacheableWhatever(networkResponse) == TRUE

\* Line 211: networkResponse && networkResponse.status === 200.
Cacheable(networkResponse) == networkResponse.status = 200

\* A filter that keeps every name.
OldCacheNamesAndCurrent(cacheNames) == cacheNames

\* Lines 119-120: the names that differ from CACHE_NAME.
OldCacheNames(cacheNames) == cacheNames \ {CACHE_NAME}

\* The requests that reach the fetch listener: a navigation, a script, and
\* two that the listener ignores.
Navigation == [method |-> "GET", url |-> "/", mode |-> "navigate"]
Script == [method |-> "GET", url |-> "/js/main.js", mode |-> "no-cors"]
SwRequests ==
    { Navigation, Script,
      [method |-> "POST", url |-> "/js/main.js", mode |-> "cors"],
      [method |-> "GET", url |-> "/sw.js", mode |-> "same-origin"] }

\* The statuses the network answers with.
NetworkStatuses == {200, 404}

\* The caches that earlier versions of the worker left behind.
OldCache(name, url) == [name |-> name, entries |-> [u \in {url} |-> OldResponse]]
OldStorages ==
    { <<>>,
      <<OldCache("meu-bar-pwa-v0.9.0", "/index.html")>>,
      <<OldCache("meu-bar-pwa-v0.8.0", "/js/main.js"),
        OldCache("meu-bar-pwa-v0.9.0", "/index.html")>> }

\* The install listener and cacheEssentialFiles (lines 52-88): the cache
\* named CACHE_NAME holds every essential file, or is empty because
\* cache.addAll failed, or is missing because caches.open failed (the
\* listener catches the error and the worker goes on to activate).
InstalledCaches ==
    { <<[name |-> CACHE_NAME,
         entries |-> [u \in ESSENTIAL_FILES |-> InstalledResponse]]>>,
      <<[name |-> CACHE_NAME, entries |-> <<>>]>>,
      <<>> }

InitSw ==
    /\ pc = "idle"
    /\ LevIdle /\ MatchIdle /\ ParseIdle /\ StoreIdle /\ AppIdle
    /\ \E old \in OldStorages, installed \in InstalledCaches :
           cacheStorage = old \o installed
    /\ swCalls = [i \in 1..MaxCalls |-> Idle]
    /\ swPuts = {}
    /\ swActivate = Idle

\* A call slot that can take the next request.
Free(call) == call.at \in {"idle", "ignored", "responded"}

\* handleCacheFirst resolves with the response.
Responded(call, response) ==
    [at |-> "responded", request |-> call.request, response |-> response,
     fetched |-> call.fetched]

\* The fetch listener (lines 140-155): a request it ignores is left to the
\* browser; any other is answered by handleCacheFirst, which runs up to the
\* await of caches.match (lines 196-199).
FetchEvent ==
    \E i \in 1..Len(swCalls), request \in SwRequests :
        /\ Free(swCalls[i])
        /\ swCalls' = [swCalls EXCEPT ![i] =
               IF shouldIgnoreRequest(request) \/ isNetworkFirstUrl(request.url)
               THEN [at |-> "ignored", request |-> request]
               ELSE [at |-> "match", request |-> request, fetched |-> FALSE]]
        /\ UNCHANGED <<pc, levVars, matchVars, parseVars, storeVars, dbTxn,
                       appClients, appProducts, selectOptions, selectValue,
                       cards, toasts, ocrModal, imageUpload, statement,
                       isLoading, handlers, cacheStorage, swPuts, swActivate>>

\* Lines 199-208: the cached response is returned, or the network asked.
CacheMatchResolves ==
    \E i \in 1..Len(swCalls) :
        /\ swCalls[i].at = "match"
        /\ LET cachedResponse ==
                   cachesMatch(cacheStorage, swCalls[i].request.url, 1)
           IN  swCalls' = [swCalls EXCEPT ![i] =
                   IF cachedResponse # JsNull THEN Responded(@, cachedResponse)
                   ELSE [@ EXCEPT !.at = "fetch"]]
        /\ UNCHANGED <<pc, levVars, matchVars, parseVars, storeVars, dbTxn,
                       appClients, appProducts, selectOptions, selectValue,
                       cards, toasts, ocrModal, imageUpload, statement,
                       isLoading, handlers, cacheStorage, swPuts, swActivate>>

\* Lines 208-212 and 222: the network answers; an answer to be cached waits
\* for caches.open, any other is returned.
FetchResolves ==
    \E i \in 1..Len(swCalls), status \in NetworkStatuses :
        /\ swCalls[i].at = "fetch"
        /\ LET networkResponse == NetworkResponse(status)
           IN  swCalls' = [swCalls EXCEPT ![i] =
                   IF Cacheable(networkResponse)
                   THEN [at |-> "open", request |-> @.request, fetched |-> TRUE,
                         networkResponse |-> networkResponse]
                   ELSE Responded([@ EXCEPT !.fetched = TRUE], networkResponse)]
        /\ UNCHANGED <<pc, levVars, matchVars, parseVars, storeVars, dbTxn,
                       appClients, appProducts, selectOptions, selectValue,
                       cards, toasts, ocrModal, imageUpload, statement,
                       isLoading, handlers, cacheStorage, swPuts, swActivate>>

\* Lines 208 and 224-227: fetch rejects, and the catch block asks the
\* caches again.
FetchRejects ==
    \E i \in 1..Len(swCalls) :
        /\ swCalls[i].at = "fetch"
        /\ swCalls' = [swCalls EXCEPT ![i] =
               [at |-> "fallback", request |-> @.request, fetched |-> TRUE]]
        /\ UNCHANGED <<pc, levVars, matchVars, parseVars, storeVars, dbTxn,
                       appClients, appProducts, selectOptions, selectValue,
                       cards, toasts, ocrModal, imageUpload, statement,
                       isLoading, handlers, cacheStorage, swPuts, swActivate>>

\* Lines 212-222: the cache is open, cache.put is called and not awaited,
\* and the network's response is returned.
CacheOpened ==
    \E i \in 1..Len(swCalls) :
        /\ swCalls[i].at = "open"
        /\ cacheStorage' = cachesOpen(cacheStorage, CACHE_NAME)
        /\ swPuts' = swPuts \cup {[url |-> swCalls[i].request.url,
                                   response |-> swCalls[i].networkResponse]}
        /\ swCalls' = [swCalls EXCEPT ![i] = Responded(@, @.networkResponse)]
        /\ UNCHANGED <<pc, levVars, matchVars, parseVars, storeVars, dbTxn,
                       appClients, appProducts, selectOptions, selectValue,
                       cards, toasts, ocrModal, imageUpload, statement,
                       isLoading, handlers, swActivate>>

\* Line 216: a cache.put completes.
CachePutCompletes ==
    \E put \in swPuts :
        /\ cacheStorage' = cachePut(cacheStorage, CACHE_NAME, put.url, put.response)
        /\ swPuts' = swPuts \ {put}
        /\ UNCHANGED <<pc, levVars, matchVars, parseVars, storeVars, dbTxn,
                       appClients, appProducts, selectOptions, selectValue,
                       cards, toasts, ocrModal, imageUpload, statement,
                       isLoading, handlers, swCalls, swActivate>>

\* Line 216: a cache.put fails; nothing awaits it.
CachePutFails ==
    \E put \in swPuts :
        /\ swPuts' = swPuts \ {put}
        /\ UNCHANGED <<pc, levVars, matchVars, parseVars, storeVars, dbTxn,
                       appClients, appProducts, selectOptions, selectValue,
                       cards, toasts, ocrModal, imageUpload, statement,
                       isLoading, handlers, cacheStorage, swCalls, swActivate>>

\* Lines 227-235 and 241-247: the second caches.match of the request.
FallbackMatchResolves ==
    \E i \in 1..Len(swCalls) :
        /\ swCalls[i].at = "fallback"
        /\ LET cachedResponse ==
                   cachesMatch(cacheStorage, swCalls[i].request.url, 1)
           IN  swCalls' = [swCalls EXCEPT ![i] =
                   IF cachedResponse # JsNull THEN Responded(@, cachedResponse)
                   ELSE IF @.request.mode = "navigate"
                        THEN [@ EXCEPT !.at = "index"]
                        ELSE Responded(@, OfflineResponse)]
        /\ UNCHANGED <<pc, levVars, matchVars, parseVars, storeVars, dbTxn,
                       appClients, appProducts, selectOptions, selectValue,
                       cards, toasts, ocrModal, imageUpload, statement,
                       isLoading, handlers, cacheStorage, swPuts, swActivate>>

\* Lines 236-247: caches.match('/index.html') for a navigation.
IndexMatchResolves ==
    \E i \in 1..Len(swCalls) :
        /\ swCalls[i].at = "index"
        /\ LET indexResponse == cachesMatch(cacheStorage, "/index.html", 1)
           IN  swCalls' = [swCalls EXCEPT ![i] =
                   IF indexResponse # JsNull THEN Responded(@, indexResponse)
                   ELSE Responded(@, OfflineResponse)]
        /\ UNCHANGED <<pc, levVars, matchVars, parseVars, storeVars, dbTxn,
                       appClients, appProducts, selectOptions, selectValue,
                       cards, toasts, ocrModal, imageUpload, statement,
                       isLoading, handlers, cacheStorage, swPuts, swActivate>>

\* The activate listener (lines 95-110) calls cleanupOldCaches, which runs
\* up to the await of caches.keys (lines 115-117).
Activate ==
    /\ swActivate = Idle
    /\ swActivate' = [at |-> "keys"]
    /\ UNCHANGED <<pc, levVars, matchVars, parseVars, storeVars, dbTxn,
                   appClients, appProducts, selectOptions, selectValue, cards,
                   toasts, ocrModal, imageUpload, statement, isLoading,
                   handlers, cacheStorage, swCalls, swPuts>>

\* Lines 117-127: caches.delete is called for every name the filter keeps,
\* and the deletions are awaited together.
CleanupKeysResolved ==
    /\ swActivate.at = "keys"
    /\ swActivate' = [at |-> "deleting",
                      pending |-> OldCacheNames(CacheNames(cacheStorage))]
    /\ UNCHANGED <<pc, levVars, matchVars, parseVars, storeVars, dbTxn,
                   appClients, appProducts, selectOptions, selectValue, cards,
                   toasts, ocrModal, imageUpload, statement, isLoading,
                   handlers, cacheStorage, swCalls, swPuts>>

\* Line 124: one of the deletions completes; those of a cleanup that failed
\* go on.
CacheDeleted ==
    /\ swActivate.at \in {"deleting", "failed"}
    /\ \E name \in swActivate.pending :
        /\ cacheStorage' = cachesDelete(cacheStorage, name)
        /\ swActivate' = [swActivate EXCEPT !.pending = @ \ {name}]
        /\ UNCHANGED <<pc, levVars, matchVars, parseVars, storeVars, dbTxn,
                       appClients, appProducts, selectOptions, selectValue,
                       cards, toasts, ocrModal, imageUpload, statement,
                       isLoading, handlers, swCalls, swPuts>>

\* Lines 127-130: every deletion has completed and cleanupOldCaches
\* returns true.
CleanupCompletes ==
    /\ swActivate.at = "deleting" /\ swActivate.pending = {}
    /\ swActivate' = [at |-> "done", pending |-> {}]
    /\ UNCHANGED <<pc, levVars, matchVars, parseVars, storeVars, dbTxn,
                   appClients, appProducts, selectOptions, selectValue, cards,
                   toasts, ocrModal, imageUpload, statement, isLoading,
                   handlers, cacheStorage, swCalls, swPuts>>

\* Lines 131-134: caches.keys or a deletion rejects and cleanupOldCaches
\* throws.
CleanupFails ==
    /\ swActivate.at \in {"keys", "deleting"}
    /\ swActivate' = [at |-> "failed",
                      pending |-> IF swActivate.at = "keys" THEN {}
                                  ELSE swActivate.pending]
    /\ UNCHANGED <<pc, levVars, matchVars, parseVars, storeVars, dbTxn,
                   appClients, appProducts, selectOptions, selectValue, cards,
                   toasts, ocrModal, imageUpload, statement, isLoading,
                   handlers, cacheStorage, swCalls, swPuts>>

\* The message listener (lines 303-329), CACHE_STATUS: getCacheStatus
\* (lines 334-350) opens the cache named CACHE_NAME, which creates it when
\* there is none.
GetCacheStatus ==
    /\ cacheStorage' = cachesOpen(cacheStorage, CACHE_NAME)
    /\ cacheStorage' # cacheStorage
    /\ UNCHANGED <<pc, levVars, matchVars, parseVars, storeVars, dbTxn,
                   appClients, appProducts, selectOptions, selectValue,
                   cards, toasts, ocrModal, imageUpload, statement,
                   isLoading, handlers, swCalls, swPuts, swActivate>>

\* The message listener, CLEAR_CACHE: one caches.delete of clearAllCaches
\* (lines 355-365), which deletes every cache that caches.keys listed, the
\* cache named CACHE_NAME included.  A message may arrive at any moment, so
\* any cache may be the one deleted.
ClearAllCachesDeletes ==
    \E name \in CacheNames(cacheStorage) :
        /\ cacheStorage' = cachesDelete(cacheStorage, name)
        /\ UNCHANGED <<pc, levVars, matchVars, parseVars, storeVars, dbTxn,
                       appClients, appProducts, selectOptions, selectValue,
                       cards, toasts, ocrModal, imageUpload, statement,
                       isLoading, handlers, swCalls, swPuts, swActivate>>

\* Requests served cache first, before, while and after the old caches are
\* cleaned up, and the messages of the page.
NextSw ==
    \/ FetchEvent
    \/ CacheMatchResolves
    \/ FetchResolves
    \/ FetchRejects
    \/ CacheOpened
    \/ CachePutCompletes
    \/ CachePutFails
    \/ FallbackMatchResolves
    \/ IndexMatchResolves
    \/ Activate
    \/ CleanupKeysResolved
    \/ CacheDeleted
    \/ CleanupCompletes
    \/ CleanupFails
    \/ GetCacheStatus
    \/ ClearAllCachesDeletes

SpecSw == InitSw /\ [][NextSw]_vars

(***************************************************************************)
(* Properties of the balance.                                              *)
(***************************************************************************)
\* The sum of a sequence of numbers.
RECURSIVE SumSeq(_)
SumSeq(ns) == IF Len(ns) = 0 THEN 0 ELSE Head(ns) + SumSeq(Tail(ns))

PriceOf(productId) ==
    IF \E p \in products : p.id = productId
    THEN (CHOOSE p \in products : p.id = productId).price
    ELSE 0

\* What the client's debits are worth, and what the client has paid.
DebitTotal(c) ==
    SumSeq([k \in 1..Len(transactions) |->
                IF transactions[k].clientId = c /\ transactions[k].type = "debit"
                THEN PriceOf(transactions[k].productId) * transactions[k].qty
                ELSE 0])

PaidTotal(c) ==
    SumSeq([k \in 1..Len(transactions) |->
                IF /\ transactions[k].clientId = c
                   /\ transactions[k].productId = PaymentProductId
                THEN transactions[k].qty
                ELSE 0])

\* C1: a client's balance is the worth of the client's debits minus the
\* amounts paid, a payment counting for its qty field.
C1_BalanceIsDebitsMinusPayments ==
    \A c \in clients :
        getClientBalance(transactions, products, c) = DebitTotal(c) - PaidTotal(c)

(***************************************************************************)
(* Properties of findBestMatch.                                            *)
(***************************************************************************)
MatchReturned ==
    pc = "returned" /\ query.t = "string" /\ candidates.t = "array"

\* Equality of two strings up to the case of their characters.
CaseInsensitiveEqual(s, u) ==
    Len(s) = Len(u) /\ \A k \in 1..Len(s) : Lower(s[k]) = Lower(u[k])

SetMin(S) == CHOOSE x \in S : \A y \in S : x <= y

\* The indexes of the candidates whose name equals the query, case aside.
ExactIndexes ==
    {i \in 1..Len(candidates.a) :
        CaseInsensitiveEqual(query.s, candidates.a[i].name)}

\* The distance of candidate i from the query, both lowered.
DistanceOf(i) ==
    levenshtein([k \in 1..Len(query.s) |-> Lower(query.s[k])],
                [k \in 1..Len(candidates.a[i].name) |->
                    Lower(candidates.a[i].name[k])])

MinDistance == SetMin({DistanceOf(i) : i \in 1..Len(candidates.a)})

ClosestIndexes ==
    {i \in 1..Len(candidates.a) : DistanceOf(i) = MinDistance}

\* C2: when some candidate's name equals the query case-insensitively,
\* findBestMatch returns the first such candidate of the list, whatever the
\* other candidates are.
C2_FirstExactMatchReturned ==
    (MatchReturned /\ ExactIndexes # {})
        => match = candidates.a[SetMin(ExactIndexes)]

\* An exact match that differs in case, behind a non-matching candidate and
\* before a second exact match.
C2_Witness ==
    /\ MatchReturned
    /\ Cardinality(ExactIndexes) >= 2
    /\ SetMin(ExactIndexes) = 2
    /\ query.s # candidates.a[2].name
    /\ match = candidates.a[2]

\* C3: findBestMatch returns a candidate exactly when the minimum distance
\* is at most floor(query.length / 2), and null otherwise.
C3_AcceptedIffWithinHalfQueryLength ==
    (MatchReturned /\ Len(query.s) > 0 /\ Len(candidates.a) > 0)
        => /\ (match # JsNull) <=> (MinDistance <= Len(query.s) \div 2)
           /\ match # JsNull => \E i \in 1..Len(candidates.a) : match = candidates.a[i]

\* A query of length 4 at distance 2 from its best candidate, accepted.
C3_Witness ==
    /\ MatchReturned
    /\ Len(query.s) = 4
    /\ Len(candidates.a) > 0
    /\ MinDistance = 2
    /\ match # JsNull

\* C4: without an exact match, an accepted match is the first candidate of
\* the list among those at the minimum distance.
C4_FirstOfTheClosestReturned ==
    (MatchReturned /\ Len(candidates.a) > 0 /\ ExactIndexes = {} /\ match # JsNull)
        => match = candidates.a[SetMin(ClosestIndexes)]

\* Two candidates tie at the minimum distance behind a farther one; the
\* first of the two is returned.
C4_Witness ==
    /\ MatchReturned
    /\ Len(candidates.a) = 3
    /\ ExactIndexes = {}
    /\ ClosestIndexes = {2, 3}
    /\ match = candidates.a[2]

\* C5: findBestMatch returns null, and does not raise, when the query is
\* null or empty or the candidate list is null or empty.
C5_NullOnMissingArguments ==
    (pc = "returned" /\ (Falsy(query) \/ Falsy(candidates) \/ Len(candidates.a) = 0))
        => match = JsNull

\* A non-empty query against a null candidate list.
C5_Witness ==
    /\ pc = "returned"
    /\ query.t = "string"
    /\ Len(query.s) > 0
    /\ candidates.t = "null"
    /\ match = JsNull

(***************************************************************************)
(* Properties of levenshtein. The edit distance is defined by search: the  *)
(* strings one edit away from s, and breadth-first rounds from a until b   *)
(* is reached. An optimal edit script never needs a string longer than the *)
(* longer of its two ends, so the search stays within LevStrings.          *)
(***************************************************************************)
OneEdit(s) ==
    LET n == Len(s)
        ins == {SubSeq(s, 1, i) \o <<c>> \o SubSeq(s, i + 1, n) :
                    i \in 0..n, c \in LevAlphabet}
        del == {SubSeq(s, 1, i - 1) \o SubSeq(s, i + 1, n) : i \in 1..n}
        sub == {[s EXCEPT ![i] = c] : i \in 1..n, c \in LevAlphabet}
    IN  {u \in ins \cup del \cup sub : Len(u) <= MaxLevLen}

\* The number of rounds of single edits after which b is first reached
\* from the strings of frontier, themselves k edits away from the start.
RECURSIVE EditRounds(_, _, _, _)
EditRounds(seen, frontier, b, k) ==
    IF b \in frontier THEN k
    ELSE LET seen2 == seen \cup frontier
         IN  EditRounds(seen2, UNION {OneEdit(s) : s \in frontier} \ seen2, b, k + 1)

EditDistance(a, b) == EditRounds({}, {a}, b, 0)

\* C6: levenshtein(a, b) is the minimum number of single-character
\* insertions, deletions and substitutions that turn a into b: 0 exactly
\* when a = b, and the other string's length when one string is empty.
C6_LevenshteinIsEditDistance ==
    pc = "returned"
        => /\ levResult = EditDistance(levA, levB)
           /\ (levResult = 0) <=> (levA = levB)
           /\ Len(levA) = 0 => levResult = Len(levB)
           /\ Len(levB) = 0 => levResult = Len(levA)

\* Two non-empty strings of different lengths, more than one edit apart.
C6_Witness ==
    /\ pc = "returned"
    /\ Len(levA) > Len(levB)
    /\ Len(levB) > 0
    /\ levResult = Len(levA)

\* C7: levenshtein(a, b) = levenshtein(b, a).
C7_LevenshteinSymmetric ==
    pc = "returned" => levResult = levenshtein(levB, levA)

\* A shorter first argument that needs an insertion and a substitution.
C7_Witness ==
    /\ pc = "returned"
    /\ Len(levA) > 0
    /\ Len(levA) < Len(levB)
    /\ levResult > Len(levB) - Len(levA)
    /\ levResult < Len(levB)

(***************************************************************************)
(* Properties of parseOcrResult, stated on the text itself: a line is      *)
(* blank when all its characters are white space, and it has the shape     *)
(* 'description = digits' when what follows its last "=" is, white space   *)
(* aside, a non-empty run of digits.                                       *)
(***************************************************************************)
IsBlank(line) == \A k \in 1..Len(line) : line[k] \in Whitespace

\* The white space at both ends of s dropped.
Strip(s) ==
    LET inner == {k \in 1..Len(s) : s[k] \notin Whitespace}
    IN  IF inner = {} THEN <<>>
        ELSE SubSeq(s, CHOOSE k \in inner : \A m \in inner : k <= m,
                       CHOOSE k \in inner : \A m \in inner : k >= m)

LastEquals(line) ==
    LET eqs == {k \in 1..Len(line) : line[k] = "="}
    IN  IF eqs = {} THEN 0 ELSE CHOOSE k \in eqs : \A m \in eqs : k >= m

HasItemShape(line) ==
    LET after == Strip(SubSeq(line, LastEquals(line) + 1, Len(line)))
    IN  /\ LastEquals(line) > 0
        /\ after # <<>>
        /\ \A k \in 1..Len(after) : after[k] \in Digits

RECURSIVE Power10(_)
Power10(n) == IF n = 0 THEN 1 ELSE 10 * Power10(n - 1)

RECURSIVE DecimalValue(_)
DecimalValue(ds) ==
    IF Len(ds) = 0 THEN 0
    ELSE DigitValue(Head(ds)) * Power10(Len(ds) - 1) + DecimalValue(Tail(ds))

ItemOf(line) ==
    [productName |-> Strip(SubSeq(line, 1, LastEquals(line) - 1)),
     qty |-> DecimalValue(Strip(SubSeq(line, LastEquals(line) + 1, Len(line))))]

\* The lines of the text, cut at every "\n".
RECURSIVE LinesOf(_)
LinesOf(s) ==
    LET breaks == {k \in 1..Len(s) : s[k] = "\n"}
    IN  IF breaks = {} THEN <<s>>
        ELSE LET last == CHOOSE k \in breaks : \A m \in breaks : k >= m
             IN  Append(LinesOf(SubSeq(s, 1, last - 1)), SubSeq(s, last + 1, Len(s)))

\* The indexes of the lines that are not blank, and the first of them.
NonBlankIndexes(lines) == {i \in 1..Len(lines) : ~IsBlank(lines[i])}
ClientLineIndex(lines) == SetMin(NonBlankIndexes(lines))

\* The indexes of the lines after the client-name line that have the shape.
ItemLineIndexes(lines) ==
    LET first == ClientLineIndex(lines)
    IN  {i \in 1..Len(lines) : i > first /\ HasItemShape(lines[i])}

\* The elements of a set of numbers, in increasing order.
RECURSIVE Sorted(_)
Sorted(S) == IF S = {} THEN <<>> ELSE <<SetMin(S)>> \o Sorted(S \ {SetMin(S)})

\* Whether parseOcrResult has returned from a text with a non-blank line.
ParsedSomeLine ==
    /\ pc = "returned"
    /\ text.t = "string"
    /\ NonBlankIndexes(LinesOf(text.s)) # {}

\* C8: parseOcrResult never raises; for null, a non-string, the empty
\* string or a text of blank lines only it returns the empty receipt, and
\* for every other text a receipt with a non-empty client name.
C8_EmptyReceiptOrClientName ==
    pc = "returned"
        => /\ parsed # Raised
           /\ IF text.t # "string" \/ \A k \in 1..Len(text.s) : text.s[k] \in Whitespace
              THEN parsed = EmptyReceipt
              ELSE /\ parsed.clientName.t = "string"
                   /\ Len(parsed.clientName.s) > 0

\* A text of several lines, all blank, one of them not empty.
C8_Witness ==
    /\ pc = "returned"
    /\ text.t = "string"
    /\ Len(LinesOf(text.s)) >= 2
    /\ Len(text.s) >= 2
    /\ NonBlankIndexes(LinesOf(text.s)) = {}
    /\ parsed = EmptyReceipt

\* C9: the first line that is not blank is the client name, trimmed,
\* whatever it holds, and it yields no item.
C9_FirstNonBlankLineIsClientName ==
    ParsedSomeLine
        => LET lines == LinesOf(text.s)
           IN  /\ parsed.clientName = JsString(Strip(lines[ClientLineIndex(lines)]))
               /\ Len(parsed.items) = Cardinality(ItemLineIndexes(lines))

\* The first non-blank line has the item shape and white space around it,
\* comes after a blank line, and is the only line with the shape.
C9_Witness ==
    /\ ParsedSomeLine
    /\ LET lines == LinesOf(text.s)
           first == ClientLineIndex(lines)
       IN  /\ first > 1
           /\ HasItemShape(lines[first])
           /\ Strip(lines[first]) # lines[first]
    /\ parsed.items = <<>>

\* C10: the items are the lines after the client-name line that have the
\* shape 'description = digits', in line order, each with its trimmed
\* description and the value of its digits; other lines are dropped.
C10_ItemsAreTheMatchingLinesInOrder ==
    ParsedSomeLine
        => LET lines == LinesOf(text.s)
               shaped == Sorted(ItemLineIndexes(lines))
           IN  parsed.items = [n \in 1..Len(shaped) |-> ItemOf(lines[shaped[n]])]

\* Two different items with a dropped line between them.
C10_Witness ==
    /\ ParsedSomeLine
    /\ LET lines == LinesOf(text.s)
       IN  /\ Len(lines) = 4
           /\ ItemLineIndexes(lines) = {2, 4}
           /\ ~IsBlank(lines[3])
    /\ Len(parsed.items) = 2
    /\ parsed.items[1].qty > parsed.items[2].qty
    /\ parsed.items[1].productName # parsed.items[2].productName

(***************************************************************************)
(* The autofill of the launch form (claims C11, C12, C13, C17, C18).       *)
(***************************************************************************)
\* A step in which handleImageUpload goes on from a recognized text.
ReceiptRead == pc = "recognizing" /\ pc' = "idle" /\ parsed' # JsNull

\* name is within the accepted distance of the candidate's name.
Acceptable(name, candidate) ==
    2 * levenshtein(toLowerCase(name), toLowerCase(candidate.name)) <= Len(name)

HasAcceptable(name, array) ==
    Len(name) > 0 /\ \E i \in 1..Len(array) : Acceptable(name, array[i])

\* The receipt names a client that the catalog resolves.
ClientResolved(parsedData, clientArray) ==
    /\ parsedData.clientName # JsNull
    /\ Len(parsedData.items) > 0
    /\ HasAcceptable(parsedData.clientName.s, clientArray)

ClientUnresolved(parsedData, clientArray) ==
    /\ parsedData.clientName # JsNull
    /\ Len(parsedData.items) > 0
    /\ ~ HasAcceptable(parsedData.clientName.s, clientArray)

NothingSelected(cs) ==
    \A i \in 1..Len(cs) : cs[i].quantity = 0 /\ ~ cs[i].selected

\* C11: when the client name of the receipt has no acceptable match among
\* the catalog's clients, the autofill selects no client and sets no
\* product quantity, and reports nothing but the missing client, whatever
\* the item lines are.
C11_ClientShortCircuit ==
    [][(ReceiptRead /\ ClientUnresolved(parsed', appClients))
          => /\ selectValue' = selectValue
             /\ NothingSelected(cards')
             /\ toasts' = <<Toast("warning", "clientNotFound",
                                  parsed'.clientName.s)>>]_vars

\* A receipt whose client is unknown and whose items all name products has
\* just been read, over a form that had a client chosen.
C11_Witness ==
    /\ pc = "idle" /\ parsed # JsNull
    /\ ClientUnresolved(parsed, appClients)
    /\ \A i \in 1..Len(parsed.items) :
           /\ HasAcceptable(parsed.items[i].productName, appProducts)
           /\ parsed.items[i].qty > 0
    /\ Len(toasts) = 1 /\ toasts[1].what = "clientNotFound"
    /\ selectValue # 0

\* The distance of name to the i-th candidate, letter case aside.
NameDistance(name, array, i) ==
    levenshtein(toLowerCase(name), toLowerCase(array[i].name))

\* The id of the product an item text stands for: the first of the products
\* nearest to it, if that one is acceptable (0: none).
ProductOf(name, array) ==
    IF ~ HasAcceptable(name, array) THEN 0
    ELSE LET best == CHOOSE i \in 1..Len(array) : \A j \in 1..Len(array) :
                         \/ NameDistance(name, array, i) < NameDistance(name, array, j)
                         \/ /\ NameDistance(name, array, i) = NameDistance(name, array, j)
                            /\ i <= j
         IN  array[best].id

\* The quantity the items leave on the card of productId: that of the last
\* item standing for the product, 0 when there is none.
QuantityFor(productId, items, array) ==
    LET hits == {i \in 1..Len(items) :
                     ProductOf(items[i].productName, array) = productId}
    IN  IF hits = {} THEN 0
        ELSE items[CHOOSE i \in hits : \A j \in hits : j <= i].qty

\* The texts of the items that stand for no product, in the receipt's order.
MissingTexts(items, array) ==
    LET missing == SelectSeq(items, LAMBDA item :
                                 ProductOf(item.productName, array) = 0)
    IN  [i \in 1..Len(missing) |-> missing[i].productName]

ReportedTexts(ts) ==
    LET reports == SelectSeq(ts, LAMBDA toast : toast.what = "productNotFound")
    IN  [i \in 1..Len(reports) |-> reports[i].about]

\* C12: once the client is resolved every item of the receipt is processed
\* in order: the card of each product shows the quantity of the item that
\* stands for it (the last one, 0 when none does), and the items that stand
\* for no product are reported, each with its text as read, without
\* stopping the items after them.
C12_EveryItemProcessedInOrder ==
    [][(ReceiptRead /\ ClientResolved(parsed', appClients))
          => /\ \A i \in 1..Len(cards') :
                    LET expected == QuantityFor(cards'[i].productId,
                                                parsed'.items, appProducts)
                    IN  /\ cards'[i].quantity = expected
                        /\ cards'[i].selected = (expected > 0)
             /\ ReportedTexts(toasts') = MissingTexts(parsed'.items, appProducts)]_vars

\* A receipt has just been read whose first item stands for no product and
\* whose second item set a quantity.
C12_Witness ==
    /\ pc = "idle" /\ parsed # JsNull
    /\ ClientResolved(parsed, appClients)
    /\ Len(parsed.items) = 2
    /\ ProductOf(parsed.items[1].productName, appProducts) = 0
    /\ parsed.items[2].qty > 0
    /\ \E i \in 1..Len(cards) :
           /\ cards[i].productId = ProductOf(parsed.items[2].productName, appProducts)
           /\ cards[i].quantity = parsed.items[2].qty
    /\ ReportedTexts(toasts) = <<parsed.items[1].productName>>

\* C13: after the items of a receipt with a resolved client were processed,
\* the closing notification is the success one exactly when every item
\* stands for a product, and the 'some items missing' warning otherwise;
\* the stored data is the same in both cases.
C13_ClosingNotificationTellsAllItemsFound ==
    [][(ReceiptRead /\ ClientResolved(parsed', appClients))
          => /\ Len(toasts') > 0
             /\ toasts'[Len(toasts')] =
                    IF MissingTexts(parsed'.items, appProducts) = <<>>
                    THEN Toast("success", "formFilled", <<>>)
                    ELSE Toast("warning", "someItemsMissing", <<>>)
             /\ UNCHANGED <<clients, products, transactions>>]_vars

\* The receipt lacks a client name or has no item.
StructurallyEmpty(parsedData) ==
    parsedData.clientName = JsNull \/ parsedData.items = <<>>

\* C17: when the receipt read has no client name or no item, the autofill
\* is given up with one error notification and the launch form is as it
\* was: the same client selected, the same quantity on every card.
C17_EmptyReceiptLeavesFormUntouched ==
    [][(ReceiptRead /\ StructurallyEmpty(parsed'))
          => /\ toasts' = <<Toast("error", "unusableReceipt", <<>>)>>
             /\ selectValue' = selectValue
             /\ cards' = cards]_vars

\* A receipt with a client name and no item has just been read over a form
\* with a client chosen and a product clicked.
C17_Witness ==
    /\ pc = "idle" /\ parsed # JsNull
    /\ parsed.clientName # JsNull /\ parsed.items = <<>>
    /\ toasts = <<Toast("error", "unusableReceipt", <<>>)>>
    /\ selectValue # 0
    /\ \E i \in 1..Len(cards) : cards[i].quantity > 0 /\ cards[i].selected

\* C18: reading a receipt into the form (populateFormWithOcrData and the
\* findBestMatch calls it makes) leaves appState.clients, appState.products
\* and the stored clients, products and transactions as they were; only
\* the selection of the form changes.
C18_AutofillChangesOnlyTheSelection ==
    [][ReceiptRead
          => UNCHANGED <<appClients, appProducts, clients, products,
                         transactions, selectOptions, statement>>]_vars

\* A receipt has just been read that chose the client and set a quantity.
C18_Witness ==
    /\ pc = "idle" /\ parsed # JsNull
    /\ ClientResolved(parsed, appClients)
    /\ selectValue # 0
    /\ \E i \in 1..Len(cards) :
           /\ cards[i].quantity > 0
           /\ cards[i].quantity =
                  QuantityFor(cards[i].productId, parsed.items, appProducts)
    /\ toasts # <<>>

(***************************************************************************)
(* The deletion of a client (claim C14).                                   *)
(***************************************************************************)
RowsOf(txs, clientId) == SelectSeq(txs, LAMBDA tx : tx.clientId = clientId)

\* C14: Store.deleteClient is atomic and cascading. The client leaves the
\* clients table in the very step in which its last rows leave the
\* transactions table; when deleteClient has succeeded neither is there;
\* while it runs and when it fails both tables read as before.
C14_DeleteClientAtomicAndCascading ==
    [][/\ \A c \in ClientIds :
              /\ (c \in clients /\ c \notin clients')
                     => RowsOf(transactions', c) = <<>>
              /\ Len(RowsOf(transactions', c)) < Len(RowsOf(transactions, c))
                     => (c \in clients /\ c \notin clients')
       /\ (TxnOpen /\ dbTxn'.step = "done")
              => /\ dbTxn.clientId \notin clients'
                 /\ RowsOf(transactions', dbTxn.clientId) = <<>>
       /\ (TxnOpen /\ dbTxn'.step # "done")
              => UNCHANGED <<clients, transactions>>]_vars

\* deleteClient has succeeded for a client that had rows, and rows of the
\* other client are still there.
C14_Witness ==
    /\ dbTxn # JsNull /\ dbTxn.step = "done" /\ dbTxn.removed > 0
    /\ dbTxn.clientId \notin clients
    /\ RowsOf(transactions, dbTxn.clientId) = <<>>
    /\ transactions # <<>>

(***************************************************************************)
(* The products that transactions refer to (claims C15, C19, C20).         *)
(***************************************************************************)
ProductIds(prods) == {p.id : p \in prods}

\* C15 as stated: in every reachable store state each transaction's
\* productId is that of a product in the products table, or the payment
\* sentinel 0.
C15_ProductIdsReferToStoredProducts ==
    \A i \in 1..Len(transactions) :
        \/ transactions[i].productId = 0
        \/ transactions[i].productId \in ProductIds(products)

\* C15, amended: in every reachable store state each transaction's
\* productId is that of a product that is or once was in the products
\* table (deleting a product leaves its transactions), or the payment
\* sentinel 0.
C15_ProductIdsReferToProductsEverStored ==
    \A i \in 1..Len(transactions) :
        \/ transactions[i].productId = 0
        \/ transactions[i].productId \in ProductIds(Catalog)

\* A launch row refers to a product that has been deleted since.
C15_Witness ==
    \E i \in 1..Len(transactions) :
        /\ transactions[i].type = "debit"
        /\ transactions[i].productId \in ProductIds(Catalog)
        /\ transactions[i].productId \notin ProductIds(products)

\* The rows that a step appends to the transactions table.
NewRows ==
    IF Len(transactions') > Len(transactions)
    THEN SubSeq(transactions', Len(transactions) + 1, Len(transactions'))
    ELSE <<>>

\* C20: every batch that handleLaunchConfirm writes refers only to products
\* that are in the store when it is committed, also when products were
\* deleted after appState.products was fetched and the grid rendered.
C20_LaunchRefersToStoredProducts ==
    [][\A i \in 1..Len(NewRows) :
           NewRows[i].type = "debit"
               => NewRows[i].productId \in ProductIds(products')]_vars

\* The rows of the rendered statement, as getTransactionsByClientId gave
\* them to the renderer.
StatementRows == getTransactionsByClientId(transactions, statement.clientId)

C16_WrittenQuantitiesArePositive ==
    \A i \in 1..Len(transactions) :
        /\ transactions[i].type \in {"debit", "credit"}
        /\ transactions[i].qty \in Nat \ {0}
        /\ transactions[i].type = "debit" <=> transactions[i].productId # 0

\* A launch has been written from the form that a receipt with a line of
\* quantity 0 filled: the row is that of the receipt's other line.
C16_Witness ==
    /\ parsed # JsNull
    /\ \E k \in 1..Len(parsed.items) : parsed.items[k].qty = 0
    /\ toasts = <<Toast("success", "launchRegistered", <<>>)>>
    /\ \E i \in 1..Len(transactions), k \in 1..Len(parsed.items) :
           /\ transactions[i].type = "debit"
           /\ transactions[i].qty = parsed.items[k].qty
           /\ transactions[i].productId =
                  ProductOf(parsed.items[k].productName, appProducts)

(***************************************************************************)
(* Claim C21.                                                              *)
(***************************************************************************)
\* The rows the table held before the open batch added any.
RowsBeforeBatch ==
    SubSeq(dbTxn.transactions, 1, Len(dbTxn.transactions) - (dbTxn.next - 1))

\* The rows at the end of the table that follow the first n.
RowsAfter(txs, n) == SubSeq(txs, n + 1, Len(txs))

\* C21: Store.addBatchTransaction is all-or-nothing. When it ends with
\* success the table is the table from before the batch followed by exactly
\* one row per item, in the items' order, each a debit of the given client
\* with the item's productId and qty, all with one timestamp; when it ends
\* with a failure the table is the table from before the batch, whatever
\* number of rows had been added.
C21_BatchIsAllOrNothing ==
    [][(TxnOpen /\ dbTxn.step = "add" /\ ~ TxnOpen') =>
         LET before == RowsBeforeBatch
             new == RowsAfter(transactions', Len(before))
         IN  IF dbTxn'.step = "added"
             THEN /\ SubSeq(transactions', 1, Len(before)) = before
                  /\ Len(new) = Len(dbTxn.items)
                  /\ \A i \in 1..Len(new) :
                        /\ new[i].type = "debit"
                        /\ new[i].clientId = dbTxn.clientId
                        /\ new[i].productId = dbTxn.items[i].productId
                        /\ new[i].qty = dbTxn.items[i].qty
                        /\ new[i].timestamp = new[1].timestamp
             ELSE transactions' = before]_vars

\* A batch of two items was stored with one timestamp, and the batch after
\* it failed once it had added a row.
C21_Witness ==
    /\ dbTxn # JsNull /\ dbTxn.step = "notAdded" /\ dbTxn.added >= 1
    /\ Len(transactions) = 2
    /\ transactions[1].timestamp = transactions[2].timestamp
    /\ transactions[1].productId # transactions[2].productId

(***************************************************************************)
(* Claim C22.                                                              *)
(***************************************************************************)
\* What handleLaunchConfirm shows on each of its three paths.
ConfirmWarning == <<Toast("warning", "selectClientAndProduct", <<>>)>>
ConfirmSuccess == <<Toast("success", "launchRegistered", <<>>)>>
ConfirmError == <<Toast("error", "launchFailed", <<>>)>>

NoPositiveQuantity(cs) == \A i \in 1..Len(cs) : cs[i].quantity = 0

\* C22: a step of handleLaunchConfirm (it ends with one of its three
\* notifications) taken with no client selected or with no positive
\* quantity shows the warning and changes neither the table nor the cards nor
\* the client selector; otherwise it either stores rows, sets every quantity
\* to zero with no card selected and empties the client selector, or it
\* fails and leaves the table, the cards and the client selector as they
\* were.
C22_ConfirmClearsOnSuccessOnly ==
    [][toasts' \in {ConfirmWarning, ConfirmSuccess, ConfirmError} =>
         IF selectValue = 0 \/ NoPositiveQuantity(cards)
         THEN /\ toasts' = ConfirmWarning
              /\ UNCHANGED <<transactions, cards, selectValue>>
         ELSE \/ /\ toasts' = ConfirmSuccess
                 /\ Len(transactions') > Len(transactions)
                 /\ NoPositiveQuantity(cards') /\ NothingSelected(cards')
                 /\ selectValue' = 0
              \/ /\ toasts' = ConfirmError
                 /\ UNCHANGED <<transactions, cards, selectValue>>]_vars

\* Two rows were stored, and the confirmation of the next launch failed
\* with a client and every product selected.
C22_Witness ==
    /\ Len(transactions) = 2
    /\ toasts = ConfirmError
    /\ selectValue # 0
    /\ \A i \in 1..Len(cards) : cards[i].selected /\ cards[i].quantity > 0

(***************************************************************************)
(* Claim C23.                                                              *)
(***************************************************************************)
\* C23: registerPayment goes on to Store.addPayment only when the lookup
\* found the client, and a lookup that finds nothing ends it with the table
\* as it was; from Store.addPayment it either ends with a failure or
\* appends exactly one row, a credit of the given client with productId 0
\* and the amount as its qty; none of its other steps changes the table.
C23_PaymentWrittenOnlyForFoundClient ==
    [][LET before == handlers.registerPayment
           after == handlers'.registerPayment
       IN  before # after =>
             /\ (before.at = "getClientById" /\ before.clientId \notin clients)
                    => after.at = "idle" /\ transactions' = transactions
             /\ after.at = "addPayment"
                    => before.at = "getClientById" /\ before.clientId \in clients
             /\ IF before.at = "addPayment" /\ after.at # "idle"
                THEN /\ after.at = "reload"
                     /\ transactions' = Append(transactions,
                            [clientId |-> before.clientId, productId |-> 0,
                             qty |-> before.amount, type |-> "credit"])
                ELSE transactions' = transactions]_vars

\* A payment of one client is in the table, and a payment for a client
\* deleted since the statement was rendered ended at the lookup: the
\* clients fetched last are all stored, so the notification is not that of
\* a statement asked for.
C23_Witness ==
    /\ toasts = <<Toast("error", "clientNotFound", <<>>)>>
    /\ handlers.registerPayment.at = "idle"
    /\ statement # JsNull /\ statement.clientId \notin clients
    /\ \A i \in 1..Len(appClients) : appClients[i].id \in clients
    /\ Len(transactions) = 1
    /\ transactions[1].type = "credit" /\ transactions[1].productId = 0

(***************************************************************************)
(* Claim C29.                                                              *)
(***************************************************************************)
\* C29: under every interleaving of the handlers' steps, every row of the
\* transactions table has the clientId of a client that is in the clients
\* table.
C29_NoOrphanTransactions ==
    \A k \in 1..Len(transactions) : transactions[k].clientId \in clients

(***************************************************************************)
(* Claim C24.                                                              *)
(***************************************************************************)
\* C24: whenever handleImageUpload is not running, the status modal is
\* hidden and #image-upload holds no file; and a call that is awaiting the
\* recognition engine ends, whichever way the engine and the autofill go.
C24_ModalHiddenOnceUploadEnds ==
    /\ [](pc = "idle" => ~ ocrModal /\ imageUpload = "")
    /\ (pc = "recognizing" /\ ocrModal ~> pc = "idle")

\* A call has ended on a receipt with an item that stands for no product:
\* the modal it showed is hidden and the file input is empty.
C24_Witness ==
    /\ pc = "idle" /\ parsed # JsNull
    /\ ClientResolved(parsed, appClients)
    /\ Len(parsed.items) = 2
    /\ ProductOf(parsed.items[2].productName, appProducts) = 0
    /\ ~ ocrModal /\ imageUpload = ""

(***************************************************************************)
(* The service worker (claims C25, C26, C27).                              *)
(***************************************************************************)
\* The responses that the caches hold for the URL.
CachedResponses(storage, url) ==
    { storage[i].entries[url] :
        i \in {j \in 1..Len(storage) : url \in DOMAIN storage[j].entries} }

\* The call has asked the network.
HasFetched(call) == call.at \notin {"idle", "ignored"} /\ call.fetched

\* The entries of the storage as triples of cache name, URL and response.
EntriesOf(storage) ==
    UNION { { <<storage[i].name, u, storage[i].entries[u]>> :
                u \in DOMAIN storage[i].entries } : i \in 1..Len(storage) }

\* C25: a call of handleCacheFirst that finds the request in a cache
\* resolves with a cached response and has asked the network for nothing;
\* it goes to the network only from a lookup that found nothing; and an
\* entry that appears in the caches is an answer of the network with status
\* 200, put in the cache named CACHE_NAME.
C25_CacheFirstThenNetwork ==
    [][/\ \A i \in 1..Len(swCalls) :
            LET call == swCalls[i]
                after == swCalls'[i]
                cached == CachedResponses(cacheStorage, call.request.url)
            IN  /\ (call.at = "match" /\ after # call) =>
                       IF cached # {}
                       THEN /\ after.at = "responded"
                            /\ after.response \in cached
                            /\ ~ after.fetched
                       ELSE after.at = "fetch"
                /\ (after.at = "fetch" /\ call.at # "fetch") =>
                       call.at = "match" /\ cached = {}
                /\ (HasFetched(after) /\ ~ HasFetched(call)) =>
                       call.at = "fetch"
       /\ \A entry \in EntriesOf(cacheStorage') \ EntriesOf(cacheStorage) :
            /\ entry[1] = CACHE_NAME
            /\ entry[3].status = 200
            /\ entry[3].body = "network"]_vars

\* A call has resolved with an answer of the network that an earlier call
\* had put in the cache, and has not asked the network.
C25_Witness ==
    \E i \in 1..Len(swCalls) :
        /\ swCalls[i].at = "responded"
        /\ ~ swCalls[i].fetched
        /\ swCalls[i].response = NetworkResponse(200)
        /\ <<CACHE_NAME, swCalls[i].request.url, NetworkResponse(200)>>
               \in EntriesOf(cacheStorage)

\* C26: when the network has failed and the caches do not hold the
\* request, a call that is not a navigation resolves with the 503 response,
\* and a navigation looks /index.html up and resolves with the cached
\* /index.html when the caches hold it and with the 503 response when they
\* do not; no step of the catch block ends the call without a response.
C26_OfflineFallbackResolves ==
    [][\A i \in 1..Len(swCalls) :
         LET call == swCalls[i]
             after == swCalls'[i]
         IN  /\ (call.at = "fallback" /\ after # call
                   /\ CachedResponses(cacheStorage, call.request.url) = {}) =>
                    IF call.request.mode = "navigate"
                    THEN after.at = "index" /\ after.request = call.request
                    ELSE /\ after.at = "responded"
                         /\ after.response.status = 503
             /\ (call.at = "index" /\ after # call) =>
                    /\ call.request.mode = "navigate"
                    /\ after.at = "responded"
                    /\ LET index == CachedResponses(cacheStorage, "/index.html")
                       IN  IF index # {} THEN after.response \in index
                           ELSE after.response.status = 503]_vars

\* A navigation that no cache held, with the network down, was answered
\* with the /index.html that a cache of an earlier version holds.
C26_Witness ==
    \E i \in 1..Len(swCalls) :
        /\ swCalls[i].at = "responded"
        /\ swCalls[i].request = Navigation
        /\ swCalls[i].fetched
        /\ swCalls[i].response = OldResponse
        /\ CachedResponses(cacheStorage, "/") = {}

\* The caches named CACHE_NAME.
CurrentCaches(storage) ==
    {storage[i] : i \in {j \in 1..Len(storage) : storage[j].name = CACHE_NAME}}

\* C27: once cleanupOldCaches has returned, no cache has a name other than
\* CACHE_NAME; and no step of cleanupOldCaches changes the cache named
\* CACHE_NAME or removes it.
C27_CleanupKeepsOnlyCurrentCache ==
    /\ [](swActivate.at = "done" => CacheNames(cacheStorage) \subseteq {CACHE_NAME})
    /\ [][swActivate' # swActivate =>
            CurrentCaches(cacheStorage') = CurrentCaches(cacheStorage)]_vars

\* The cleanup has returned and the cache named CACHE_NAME, with what the
\* installation put there, is the only one left.
C27_Witness ==
    /\ swActivate.at = "done"
    /\ Len(cacheStorage) = 1
    /\ cacheStorage[1].name = CACHE_NAME
    /\ \E u \in DOMAIN cacheStorage[1].entries :
           cacheStorage[1].entries[u] = InstalledResponse

\* The positions of the items that stand for the product.
ItemsFor(productId, items, array) ==
    {i \in 1..Len(items) : ProductOf(items[i].productName, array) = productId}

\* C28: when two or more items of a receipt stand for the same product, the
\* card of that product is left with the quantity of the last of them, and
\* not with the sum of their quantities when the two differ.
C28_LastQuantityWinsForRepeatedProduct ==
    [][(ReceiptRead /\ ClientResolved(parsed', appClients))
          => \A i \in 1..Len(cards') :
                 LET items == parsed'.items
                     hits == ItemsFor(cards'[i].productId, items, appProducts)
                     last == CHOOSE h \in hits : \A j \in hits : j <= h
                     total == SumSeq([k \in 1..Len(items) |->
                                         IF k \in hits THEN items[k].qty ELSE 0])
                 IN  Cardinality(hits) >= 2
                         => /\ cards'[i].quantity = items[last].qty
                            /\ total # items[last].qty
                                   => cards'[i].quantity # total]_vars

\* A receipt has just been read whose two items stand for one product,
\* with quantities 2 and then 1, and the card of the product shows 1.
C28_Witness ==
    /\ pc = "idle" /\ parsed # JsNull
    /\ ClientResolved(parsed, appClients)
    /\ Len(parsed.items) = 2
    /\ parsed.items[1].productName # parsed.items[2].productName
    /\ parsed.items[1].qty = 2 /\ parsed.items[2].qty = 1
    /\ \E i \in 1..Len(cards) :
           /\ ItemsFor(cards[i].productId, parsed.items, appProducts) = {1, 2}
           /\ cards[i].quantity = 1

\* C30: appState.isLoading is true exactly while some handler is between
\* its setLoading(true) and its finally block.
C30_LoadingIffAHandlerRuns ==
    isLoading <=> \E h \in DOMAIN handlers : Running(h)

====
